---- MODULE Spec2Model ----
(***************************************************************************)
(* A model of grade_cleaner.py and grade_file_deduplicator.py.             *)
(*                                                                         *)
(* grade_cleaner.py: the table locator                                     *)
(* (find_data_start_and_id_column), the component matcher                  *)
(* (find_matching_column_index), the per-file pipeline                     *)
(* (process_consolidated_file) and the per-term loop of main.              *)
(*                                                                         *)
(* Text is modelled as a sequence of one-character strings, so that        *)
(* upper(), lower(), strip(), startswith(), split() and the `in` substring *)
(* test are computed and not assumed.  Row and column indices are 0-based  *)
(* as in the source; Python's None is the value None below.                *)
(*                                                                         *)
(* grade_file_deduplicator.py: FileDeduplicator, whose process_all_files   *)
(* walks the input files, skips the content duplicates, and writes one     *)
(* output per csv file, pdf file and non-empty Excel sheet.                *)
(***************************************************************************)
EXTENDS Integers, Sequences, FiniteSets, TLC

VARIABLES
    files,              \* the csv files of the consolidated folder, in sorted(os.listdir) order
    file_no,            \* position of the loop of main over the files (1-based)
    lines,              \* the file as csv.reader sees it: a sequence of rows of cells
    year_month,         \* get_year_month_from_filename(filename) of the file
    legacy_df,          \* the roster: a sequence of slots, in roster order
    pc,                 \* position of the run
    terms,              \* term ids main still has to process the file for (head = current)
    start_row,          \* process_consolidated_file: start_row
    id_col_idx,         \* process_consolidated_file: id_col_idx
    row_i,              \* position of the outer loop over df.iterrows()
    slot_i,             \* position of the inner loop over student_legacy_data.iterrows()
    updates,            \* the UPDATE statements printed so far, in order
    log,                \* the SKIPPING / error lines printed so far, in order
    grade_columns,      \* process_consolidated_file: grade_columns_with_indices
    component_name,     \* find_matching_column_index: argument
    header_columns,     \* find_matching_column_index: argument
    matched_header_idx, \* find_matching_column_index: result
    found_files,        \* FileDeduplicator.process_all_files: files (find_all_files())
    file_i,             \* position of the loop of process_all_files (1-based)
    sheet_i,            \* position of the loop of process_excel_file over sheet_names
    file_hashes,        \* FileDeduplicator.file_hashes: hash -> original path
    processed_files,    \* FileDeduplicator.processed_files
    duplicate_files,    \* FileDeduplicator.duplicate_files
    output_dir,         \* the output directory: file name -> what was written to it
    all_output_files    \* process_all_files: all_output_files

vars == <<files, file_no, lines, year_month, legacy_df, pc, terms, start_row, id_col_idx, row_i,
          slot_i, updates, log, grade_columns, component_name, header_columns,
          matched_header_idx, found_files, file_i, sheet_i, file_hashes, processed_files,
          duplicate_files, output_dir, all_output_files>>

\* the state of grade_file_deduplicator.py
dedup_vars == <<found_files, file_i, sheet_i, file_hashes, processed_files, duplicate_files,
                output_dir, all_output_files>>

\* the state of grade_cleaner.py
cleaner_vars == <<files, file_no, lines, year_month, legacy_df, terms, start_row, id_col_idx,
                  row_i, slot_i, updates, log, grade_columns, component_name, header_columns,
                  matched_header_idx>>

\* a dict with no keys
EmptyDict == [k \in {} |-> {}]

\* FileDeduplicator.__init__, and an output directory with nothing in it
DedupIdle ==
    /\ found_files = <<>>
    /\ file_i = 1
    /\ sheet_i = 1
    /\ file_hashes = EmptyDict
    /\ processed_files = {}
    /\ duplicate_files = <<>>
    /\ output_dir = EmptyDict
    /\ all_output_files = <<>>

---------------------------------------------------------------------------
(* Bounds of the model *)

MaxLocRows == 3
MaxHeaders == 3
MaxRows == 3
MaxSlots == 2
MaxClassCols == 5
MaxReconRows == 2
MaxFiles == 2

(* Program constants *)

None == -1
MinIdDigits == 3
MaxIdDigits == 6
RunNeeded == 2

---------------------------------------------------------------------------
(* Text *)

LowerLetters == <<"a", "b", "c", "d", "e", "f", "g", "h", "i", "j", "k", "l", "m",
                  "n", "o", "p", "q", "r", "s", "t", "u", "v", "w", "x", "y", "z">>
UpperLetters == <<"A", "B", "C", "D", "E", "F", "G", "H", "I", "J", "K", "L", "M",
                  "N", "O", "P", "Q", "R", "S", "T", "U", "V", "W", "X", "Y", "Z">>
DigitChars == {"0", "1", "2", "3", "4", "5", "6", "7", "8", "9"}
SpaceChars == {" ", "\t"}

UpperChar(c) ==
    IF \E i \in 1..26 : LowerLetters[i] = c
    THEN UpperLetters[CHOOSE i \in 1..26 : LowerLetters[i] = c]
    ELSE c

LowerChar(c) ==
    IF \E i \in 1..26 : UpperLetters[i] = c
    THEN LowerLetters[CHOOSE i \in 1..26 : UpperLetters[i] = c]
    ELSE c

\* str.upper()
ToUpper(s) == [i \in 1..Len(s) |-> UpperChar(s[i])]

\* str.lower()
ToLower(s) == [i \in 1..Len(s) |-> LowerChar(s[i])]

RECURSIVE LStrip(_)
LStrip(s) ==
    IF s # <<>> /\ Head(s) \in SpaceChars THEN LStrip(Tail(s)) ELSE s

RECURSIVE RStrip(_)
RStrip(s) ==
    IF s # <<>> /\ s[Len(s)] \in SpaceChars
    THEN RStrip(SubSeq(s, 1, Len(s) - 1))
    ELSE s

\* str.strip()
Strip(s) == RStrip(LStrip(s))

\* sub in s
Contains(s, sub) ==
    \E i \in 0..(Len(s) - Len(sub)) : SubSeq(s, i + 1, i + Len(sub)) = sub

\* s.startswith(p)
StartsWith(s, p) == Len(p) <= Len(s) /\ SubSeq(s, 1, Len(p)) = p

\* s.split(d)[-1]: the text after the last occurrence of d, all of s when d
\* does not occur (split then returns the one-element list [s])
SplitLast(s, d) ==
    LET at == {i \in 0..(Len(s) - Len(d)) : SubSeq(s, i + 1, i + Len(d)) = d}
    IN  IF at = {} THEN s
        ELSE LET last == CHOOSE i \in at : \A j \in at : j <= i
             IN  SubSeq(s, last + Len(d) + 1, Len(s))

Min(S) == CHOOSE x \in S : \A y \in S : x <= y

SeqsUpTo(S, n) == UNION {[1..k -> S] : k \in 0..n}

---------------------------------------------------------------------------
(* find_data_start_and_id_column *)

\* re.fullmatch(r'\d{3,6}', cell)
IsStudentId(cell) ==
    /\ Len(cell) >= MinIdDigits
    /\ Len(cell) <= MaxIdDigits
    /\ \A i \in 1..Len(cell) : cell[i] \in DigitChars

\* max(len(r) for r in lines)
max_cols(ls) ==
    IF ls = <<>> THEN 0
    ELSE CHOOSE n \in {Len(ls[i]) : i \in 1..Len(ls)} :
             \A i \in 1..Len(ls) : Len(ls[i]) <= n

\* A variant of ScanColumn that reports the row at which the run reached
\* RunNeeded and not the row at which it began
RECURSIVE ScanColumn_ReportsLastRow(_, _, _, _, _)
ScanColumn_ReportsLastRow(ls, col_idx, row_idx, consecutive_matches, first_match_row) ==
    IF row_idx >= Len(ls) THEN None
    ELSE IF col_idx < Len(ls[row_idx + 1])
    THEN IF IsStudentId(Strip(ls[row_idx + 1][col_idx + 1]))
         THEN IF consecutive_matches + 1 >= RunNeeded
              THEN row_idx
              ELSE ScanColumn_ReportsLastRow(ls, col_idx, row_idx + 1,
                                             consecutive_matches + 1, row_idx)
         ELSE ScanColumn_ReportsLastRow(ls, col_idx, row_idx + 1, 0, None)
    ELSE ScanColumn_ReportsLastRow(ls, col_idx, row_idx + 1, consecutive_matches,
                                   first_match_row)

\* The inner loop over row_idx for one col_idx, from row_idx on, with the loop's
\* two locals.  The row the run began at when the run reaches RunNeeded, None
\* when the rows are exhausted.  A row too short for col_idx takes neither
\* branch of the inner if: the locals are left as they are.
RECURSIVE ScanColumn(_, _, _, _, _)
ScanColumn(ls, col_idx, row_idx, consecutive_matches, first_match_row) ==
    IF row_idx >= Len(ls) THEN None
    ELSE IF col_idx < Len(ls[row_idx + 1])
    THEN IF IsStudentId(Strip(ls[row_idx + 1][col_idx + 1]))
         THEN LET fmr == IF consecutive_matches = 0 THEN row_idx ELSE first_match_row
              IN  IF consecutive_matches + 1 >= RunNeeded
                  THEN fmr
                  ELSE ScanColumn(ls, col_idx, row_idx + 1, consecutive_matches + 1, fmr)
         ELSE ScanColumn(ls, col_idx, row_idx + 1, 0, None)
    ELSE ScanColumn(ls, col_idx, row_idx + 1, consecutive_matches, first_match_row)

\* The outer loop over col_idx, from col_idx on
RECURSIVE ScanFrom(_, _)
ScanFrom(ls, col_idx) ==
    IF col_idx >= max_cols(ls) THEN <<None, None>>
    ELSE LET r == ScanColumn(ls, col_idx, 0, 0, None)
         IN  IF r # None THEN <<r, col_idx>> ELSE ScanFrom(ls, col_idx + 1)

find_data_start_and_id_column(ls) ==
    IF ls = <<>> THEN <<None, None>> ELSE ScanFrom(ls, 0)

---------------------------------------------------------------------------
(* find_matching_column_index *)

rules == <<
    [component_keys |-> << <<"V", "-">>, <<"V", "E", "N">> >>,
     header_keys |-> << <<"V", "E", "N", "T", "U", "R", "E">>, <<"3", " ", "D", "A", "Y">> >>],
    [component_keys |-> << <<"P", "R", "O", "-">> >>,
     header_keys |-> << <<"P", "R", "O", "J", "E", "C", "T">>, <<"2", " ", "D", "A", "Y">> >>],
    [component_keys |-> << <<"I", "E", "A", "P", "-", "2", "-", "W", "R">>, <<"W", "R">>,
                           <<"W", "-">> >>,
     header_keys |-> << <<"W", "R", "I", "T", "I", "N", "G">> >>],
    [component_keys |-> << <<"I", "N", "T", "E", "R", "-", "2">>, <<"G", "-">> >>,
     header_keys |-> << <<"G", "R", "A", "M", "M", "A", "R">> >>],
    [component_keys |-> << <<"R", "E", "-">>, <<"R", "-">> >>,
     header_keys |-> << <<"R", "E", "A", "D", "I", "N", "G">> >>],
    [component_keys |-> << <<"C", "O", "M", "P", "-">> >>,
     header_keys |-> << <<"C", "O", "M", "P", "U", "T", "E", "R">>, <<"C", "O", "M", "P">> >>],
    [component_keys |-> << <<"E", "W", "-">> >>,
     header_keys |-> << <<"E", "S", "S", "A", "Y">>, <<"W", "R", "I", "T", "I", "N", "G">> >>],
    [component_keys |-> << <<"B", "P", "-">> >>,
     header_keys |-> << <<"B", "P">> >>],
    [component_keys |-> << <<"F", "C", "-">> >>,
     header_keys |-> << <<"F", "C">>,
                        <<"F", "O", "U", "R", " ", "C", "O", "R", "N", "E", "R", "S">> >>],
    [component_keys |-> << <<"E", "C", "-">> >>,
     header_keys |-> << <<"E", "C">>,
                        <<"E", "N", "G", "L", " ", "I", "N", " ", "C", "O", "M", "M", "O", "N">> >>],
    [component_keys |-> << <<"H", "C", "O", "M", "P", "-">> >>,
     header_keys |-> << <<"C", "O", "M", "P", "O", "S", "I", "T", "I", "O", "N">> >>]
    >>

\* [str(h).upper().strip() for h in header_columns]
header_columns_upper(hs) == [i \in 1..Len(hs) |-> Strip(ToUpper(hs[i]))]

\* A variant of RuleApplies that looks for the key anywhere in the label
\* (key in component_name) instead of at its start
RuleApplies_Anywhere(rule, cn) ==
    \E k \in 1..Len(rule.component_keys) : Contains(cn, rule.component_keys[k])

\* any(component_name.startswith(key) for key in component_keys)
RuleApplies(rule, cn) ==
    \E k \in 1..Len(rule.component_keys) : StartsWith(cn, rule.component_keys[k])

\* for i, header in enumerate(header_columns_upper): if h_key in header: return i
FirstContaining(hu, h_key) ==
    LET hit == {i \in 1..Len(hu) : Contains(hu[i], h_key)}
    IN  IF hit = {} THEN None ELSE Min(hit) - 1

\* A variant of KeywordsFrom with the two loops exchanged: the first header
\* that contains any of the keywords
KeywordsFrom_HeaderOrder(header_keys, hu, k) ==
    LET hit == {i \in 1..Len(hu) :
                   \E j \in k..Len(header_keys) : Contains(hu[i], header_keys[j])}
    IN  IF hit = {} THEN None ELSE Min(hit) - 1

\* for h_key in header_keys: ... , from keyword k on
RECURSIVE KeywordsFrom(_, _, _)
KeywordsFrom(header_keys, hu, k) ==
    IF k > Len(header_keys) THEN None
    ELSE LET i == FirstContaining(hu, header_keys[k])
         IN  IF i # None THEN i ELSE KeywordsFrom(header_keys, hu, k + 1)

\* for component_keys, header_keys in rules.items(): ... , from rule r on.  A rule
\* that applies and whose keywords hit no header does not end the loop.
RECURSIVE RulesFrom(_, _, _)
RulesFrom(cn, hu, r) ==
    IF r > Len(rules) THEN None
    ELSE LET i == IF RuleApplies(rules[r], cn)
                  THEN KeywordsFrom(rules[r].header_keys, hu, 1)
                  ELSE None
         IN  IF i # None THEN i ELSE RulesFrom(cn, hu, r + 1)

\* for i, header in enumerate(header_columns_upper): if component_name == header: return i
DirectMatch(cn, hu) ==
    LET hit == {i \in 1..Len(hu) : cn = hu[i]}
    IN  IF hit = {} THEN None ELSE Min(hit) - 1

\* A variant of find_matching_column_index that applies the heuristic rules
\* before the direct match
find_matching_column_index_RulesFirst(cname, hs) ==
    LET cn == ToUpper(cname)
        hu == header_columns_upper(hs)
        h  == RulesFrom(cn, hu, 1)
    IN  IF h # None THEN h ELSE DirectMatch(cn, hu)

find_matching_column_index(cname, hs) ==
    LET cn == ToUpper(cname)
        hu == header_columns_upper(hs)
        d  == DirectMatch(cn, hu)
    IN  IF d # None THEN d ELSE RulesFrom(cn, hu, 1)

---------------------------------------------------------------------------
(* pandas and Python conversions used by process_consolidated_file *)

DigitSeq == <<"0", "1", "2", "3", "4", "5", "6", "7", "8", "9">>

DigitText(n) == <<DigitSeq[n + 1]>>

DigitValue(c) == CHOOSE d \in 0..9 : DigitSeq[d + 1] = c

IsDigits(s) == \A i \in 1..Len(s) : s[i] \in DigitChars

\* seq[i] of Python, i negative counting from the end
PyIndex(seq, i) == IF i < 0 THEN seq[Len(seq) + i + 1] ELSE seq[i + 1]

\* The tokens read_csv reads as NaN (its default na_values)
NAValues == {
    <<>>, <<"N", "/", "A">>, <<"N", "A">>, <<"N", "a", "N">>, <<"n", "a", "n">>,
    <<"n", "u", "l", "l">>, <<"N", "U", "L", "L">>, <<"#", "N", "/", "A">>,
    <<"n", "/", "a">>, <<"<", "N", "A", ">">>, <<"N", "o", "n", "e">>, <<"#", "N", "A">>,
    <<"-", "N", "a", "N">>, <<"-", "n", "a", "n">>, <<"1", ".", "#", "I", "N", "D">>,
    <<"1", ".", "#", "Q", "N", "A", "N">>, <<"-", "1", ".", "#", "I", "N", "D">>,
    <<"-", "1", ".", "#", "Q", "N", "A", "N">>,
    <<"#", "N", "/", "A", " ", "N", "/", "A">> }

\* pd.isna of the value read_csv gives for the cell
IsNA(cell) == cell \in NAValues

Unsigned(t) == IF t # <<>> /\ t[1] \in {"+", "-"} THEN Tail(t) ELSE t

IsNegative(t) == t # <<>> /\ t[1] = "-"

\* Text that parses as an integer: optional sign and digits, blanks around it
IsIntText(cell) ==
    LET u == Unsigned(Strip(cell))
    IN  u # <<>> /\ IsDigits(u)

\* Text that float() and the numeric parsers of pandas accept: optional sign,
\* digits with at most one decimal point, blanks around it.  Exponents,
\* inf/nan spellings and digit-group underscores are not modelled.
IsFloatText(cell) ==
    LET u    == Unsigned(Strip(cell))
        dots == {i \in 1..Len(u) : u[i] = "."}
    IN  /\ Cardinality(dots) <= 1
        /\ \A i \in 1..Len(u) : i \in dots \/ u[i] \in DigitChars
        /\ Len(u) > Cardinality(dots)

RECURSIVE NatOf(_)
NatOf(ds) ==
    IF ds = <<>> THEN 0
    ELSE NatOf(SubSeq(ds, 1, Len(ds) - 1)) * 10 + DigitValue(ds[Len(ds)])

\* float(text) in thousandths, as f"{numeric_grade:.3f}" prints it.  Exact for
\* at most three fractional digits; a longer fraction is rounded on its fourth
\* digit (the source rounds the binary double, which can differ on a tie).
Thousandths(cell) ==
    LET t    == Strip(cell)
        u    == Unsigned(t)
        dots == {i \in 1..Len(u) : u[i] = "."}
        p    == IF dots = {} THEN Len(u) + 1 ELSE CHOOSE i \in dots : TRUE
        ip   == SubSeq(u, 1, p - 1)
        fp   == SubSeq(u, p + 1, Len(u))
        f3   == [i \in 1..3 |-> IF i <= Len(fp) THEN fp[i] ELSE "0"]
        up   == IF Len(fp) >= 4 /\ DigitValue(fp[4]) >= 5 THEN 1 ELSE 0
        v    == NatOf(ip) * 1000 + NatOf(f3) + up
    IN  IF IsNegative(t) THEN 0 - v ELSE v

RECURSIVE DropLeadingZeros(_)
DropLeadingZeros(ds) ==
    IF Len(ds) > 1 /\ ds[1] = "0" THEN DropLeadingZeros(Tail(ds)) ELSE ds

RECURSIVE DropTrailingZeros(_)
DropTrailingZeros(ds) ==
    IF Len(ds) > 1 /\ ds[Len(ds)] = "0"
    THEN DropTrailingZeros(SubSeq(ds, 1, Len(ds) - 1))
    ELSE ds

\* str(int(text)): the value of an int64 column as astype(str) gives it
IntRepr(cell) ==
    LET t == Strip(cell)
        v == DropLeadingZeros(Unsigned(t))
    IN  IF IsNegative(t) /\ v # <<"0">> THEN <<"-">> \o v ELSE v

\* str(float(text)): the value of a float64 column as astype(str) gives it
\* (fixed notation; the exponent notation of large and small values is not
\* modelled)
FloatRepr(cell) ==
    LET t    == Strip(cell)
        u    == Unsigned(t)
        dots == {i \in 1..Len(u) : u[i] = "."}
        p    == IF dots = {} THEN Len(u) + 1 ELSE CHOOSE i \in dots : TRUE
        ip   == IF p = 1 THEN <<"0">> ELSE DropLeadingZeros(SubSeq(u, 1, p - 1))
        fp   == IF p >= Len(u) THEN <<"0">> ELSE DropTrailingZeros(SubSeq(u, p + 1, Len(u)))
    IN  (IF IsNegative(t) THEN <<"-">> ELSE <<>>) \o ip \o <<".">> \o fp

\* The dtype read_csv infers for a column from the cells below the header
ColumnDtype(cells) ==
    IF \A i \in 1..Len(cells) : IsIntText(cells[i]) /\ ~IsNA(cells[i]) THEN "int64"
    ELSE IF \A i \in 1..Len(cells) : IsNA(cells[i]) \/ IsFloatText(cells[i]) THEN "float64"
    ELSE "object"

\* The column labels read_csv makes of the header row: an empty cell is named
\* "Unnamed: <position>", a repeated name gets the suffix ".<count>"
MangledName(hc, i) ==
    LET base(j) == IF hc[j] = <<>>
                   THEN <<"U", "n", "n", "a", "m", "e", "d", ":", " ">> \o DigitText(j - 1)
                   ELSE hc[j]
        seen    == Cardinality({j \in 1..(i - 1) : base(j) = base(i)})
    IN  IF seen = 0 THEN base(i) ELSE base(i) \o <<".">> \o DigitText(seen)

\* df.columns = [str(c).strip() for c in df.columns]
df_columns(hc) == [i \in 1..Len(hc) |-> Strip(MangledName(hc, i))]

\* pd.to_numeric(value, errors='coerce').notna() of a cell of the id column
IdIsNumeric(cell) == ~IsNA(cell) /\ IsFloatText(cell)

\* df[student_id_col_name].astype(str).str.strip() of a cell of the id column
IdText(cell, dtype) ==
    IF dtype = "int64" THEN IntRepr(cell)
    ELSE IF dtype = "float64" THEN FloatRepr(cell)
    ELSE Strip(cell)

\* The rows of df after the numeric filter on the id column, in file order, for
\* a file whose rows all have the width of the header row and none of which is
\* blank: each with the 0-based index of its line and its student id text
df_rows(ls, header_row_index, idc) ==
    LET body  == [k \in 1..(Len(ls) - header_row_index - 1) |->
                     [line |-> header_row_index + k,
                      cell |-> ls[header_row_index + k + 1][idc + 1]]]
        dtype == ColumnDtype([k \in 1..Len(body) |-> body[k].cell])
        Keep(b) == IdIsNumeric(b.cell)
        kept  == SelectSeq(body, Keep)
    IN  [k \in 1..Len(kept) |->
            [line |-> kept[k].line, student_id |-> IdText(kept[k].cell, dtype)]]

\* Whether the block from pd.read_csv to the astype(str) raises: read_csv
\* rejects a negative header, and pd.to_numeric rejects the DataFrame that
\* df[name] is when two columns carry the name of the id column
ReadRaises(hc, header_row_index, idc) ==
    \/ header_row_index < 0
    \/ Cardinality({j \in 1..Len(hc) : df_columns(hc)[j] = df_columns(hc)[idc + 1]}) > 1

---------------------------------------------------------------------------
(* process_consolidated_file: the header row and the candidate columns *)

\* The classid of a roster slot whose cell is empty in the roster file: the
\* float NaN of pandas, not a text
nan == <<"nan">>

stop_words == << <<"t", "o", "t", "a", "l">>, <<"g", "r", "a", "d", "e">>,
                 <<"u", "n", "n", "a", "m", "e", "d">>, <<"i", "d">>,
                 <<"n", "a", "m", "e">>, <<"s", "u", "r", "n", "a", "m", "e">>,
                 <<"f", "i", "r", "s", "t">>, <<"l", "a", "s", "t">> >>

\* [h.upper().strip() for h in header_columns]
headers_upper(hc) == [i \in 1..Len(hc) |-> Strip(ToUpper(hc[i]))]

\* '2 DAY' in headers_upper and '3 DAY' in headers_upper
AmbiguousHeaders(hc) ==
    /\ \E i \in 1..Len(hc) : headers_upper(hc)[i] = <<"2", " ", "D", "A", "Y">>
    /\ \E i \in 1..Len(hc) : headers_upper(hc)[i] = <<"3", " ", "D", "A", "Y">>

\* A variant of grade_columns_with_indices that looks for the stop-words in the
\* header as written (sw in h) instead of in h.lower()
grade_columns_with_indices_CaseSensitive(hc, idc) ==
    LET pairs   == [i \in 1..Len(hc) |-> <<i - 1, hc[i]>>]
        Keep(p) == /\ p[1] # idc
                   /\ ~\E w \in 1..Len(stop_words) : Contains(p[2], stop_words[w])
                   /\ Strip(p[2]) # <<>>
    IN  SelectSeq(pairs, Keep)

\* The list of (i, h): 0-based index and header of each candidate grade column
grade_columns_with_indices(hc, idc) ==
    LET pairs   == [i \in 1..Len(hc) |-> <<i - 1, hc[i]>>]
        Keep(p) == /\ p[1] # idc
                   /\ ~\E w \in 1..Len(stop_words) : Contains(ToLower(p[2]), stop_words[w])
                   /\ Strip(p[2]) # <<>>
    IN  SelectSeq(pairs, Keep)

\* [h for _, h in grade_columns_with_indices]
grade_column_headers(hc, idc) ==
    LET g == grade_columns_with_indices(hc, idc)
    IN  [k \in 1..Len(g) |-> g[k][2]]

---------------------------------------------------------------------------
(* Texts the runs below are drawn from *)

t_3DAY == <<"3", " ", "D", "A", "Y">>
t_2DAY == <<"2", " ", "D", "A", "Y">>
t_VENTURE == <<"V", "E", "N", "T", "U", "R", "E">>
t_WRITING == <<"W", "R", "I", "T", "I", "N", "G">>
t_writing == <<"w", "r", "i", "t", "i", "n", "g">>
t_writing_padded == <<" ", "w", "r", "i", "t", "i", "n", "g", " ">>
t_IEAP_WRITING_TEST ==
    <<"I", "E", "A", "P", " ", "W", "R", "I", "T", "I", "N", "G", " ", "T", "E", "S", "T">>
t_ESSAY == <<"E", "S", "S", "A", "Y">>
t_NAME == <<"N", "A", "M", "E">>
t_TOTAL == <<"T", "O", "T", "A", "L">>
t_V_PRO_3 == <<"V", "-", "P", "R", "O", "-", "3">>
t_v_pro_3 == <<"v", "-", "p", "r", "o", "-", "3">>
t_EW_1 == <<"E", "W", "-", "1">>
t_PRO_2 == <<"P", "R", "O", "-", "2">>
t_XX == <<"X", "X">>
t_123 == <<"1", "2", "3">>
t_4567_padded == <<" ", "4", "5", "6", "7", " ">>
t_1234567 == <<"1", "2", "3", "4", "5", "6", "7">>
t_1a == <<"1", "a">>

\* Cells of the grids the locator is run on: two identifiers (one padded), a
\* digit string that is too long, and a cell that is no digit string
LocCells == {t_123, t_4567_padded, t_1234567, t_1a}
LocWidths == {0, 1, 2}
LocRows == UNION {[1..w -> LocCells] : w \in LocWidths}
LocGrids == SeqsUpTo(LocRows, MaxLocRows)

\* Labels and headers the matcher is run on
MatchLabels == {t_V_PRO_3, t_v_pro_3, t_WRITING, t_writing, t_EW_1, t_PRO_2, t_XX}
MatchHeaders == {t_NAME, t_3DAY, t_VENTURE, t_WRITING, t_writing_padded,
                 t_IEAP_WRITING_TEST, t_ESSAY, t_2DAY, t_TOTAL}

t_ID == <<"I", "D">>
t_Name == <<"N", "a", "m", "e">>
t_Total == <<"T", "o", "t", "a", "l">>
t_Writing == <<"W", "r", "i", "t", "i", "n", "g">>
t_Unnamed_4 == <<"U", "n", "n", "a", "m", "e", "d", ":", " ", "4">>

\* The header cells of the candidate-column runs: the row of the example, and a
\* cell of whitespace only
ClassHeaders == {t_ID, t_Name, t_Total, t_Writing, t_Unnamed_4, <<" ">>}

\* The identifier columns of the candidate-column runs: the one of the example,
\* and one whose header would otherwise be a candidate there
ClassIdCols == {0, 3}
t_10293 == <<"1", "0", "2", "9", "3">>
t_10294 == <<"1", "0", "2", "9", "4">>
t_87_5 == <<"8", "7", ".", "5">>
t_N_A == <<"N", "/", "A">>
t_70 == <<"7", "0">>
t_80 == <<"8", "0">>
t_90 == <<"9", "0">>
t_ENGL101_V_PRO_3 ==
    <<"E", "N", "G", "L", "1", "0", "1", "!", "$", "V", "-", "P", "R", "O", "-", "3">>

t_ENGL101_XX == <<"E", "N", "G", "L", "1", "0", "1", "!", "$", "X", "X">>

NoYearMonth == "None"

\* Rows of the files the pipeline is run on.  A file's rows all have one width
\* (2 or 3 cells) and none is blank.
FileRows2 == { <<t_ID, t_3DAY>>, <<t_10293, t_87_5>>, <<t_10294, t_N_A>>, <<<<>>, t_90>> }
FileRows3 == { <<t_ID, t_2DAY, t_3DAY>>, <<t_ID, t_TOTAL, t_3DAY>>,
               <<t_10293, t_70, t_87_5>>, <<t_10294, t_80, <<>>>> }
Files == SeqsUpTo(FileRows2, MaxRows) \cup SeqsUpTo(FileRows3, MaxRows)

\* Slots of the roster, as main has them after loading: term_startdate is kept
\* as its strftime('%Y-%m')
RosterSlots == {
    [student_id |-> t_10293, termid |-> "T1", classid |-> t_ENGL101_V_PRO_3,
     term_startdate |-> "2022-10"],
    [student_id |-> t_10293, termid |-> "T1", classid |-> t_V_PRO_3,
     term_startdate |-> "2022-10"],
    [student_id |-> t_10294, termid |-> "T2", classid |-> t_ENGL101_V_PRO_3,
     term_startdate |-> "2022-10"],
    [student_id |-> t_10293, termid |-> "T1", classid |-> t_ENGL101_XX,
     term_startdate |-> "2022-10"],
    [student_id |-> t_10293, termid |-> "T3", classid |-> t_ENGL101_V_PRO_3,
     term_startdate |-> "2022-11"] }
Rosters == SeqsUpTo(RosterSlots, MaxSlots)

t_00123 == <<"0", "0", "1", "2", "3">>
t_AB == <<"A", "B">>

\* Files of the reconciliation runs: the header row ["ID", "3 DAY"] and up to
\* MaxReconRows rows below it
ReconRows == { <<t_10293, t_87_5>>, <<t_10294, t_N_A>>, <<t_10294, t_AB>>,
               <<t_00123, t_90>> }
ReconFiles == {<< <<t_ID, t_3DAY>> >> \o body : body \in SeqsUpTo(ReconRows, MaxReconRows)}

\* Slots of the reconciliation runs, all of term T1 of the file's month: one
\* whose classid cell is empty in the roster file, and one of a student whose
\* id begins with zeros
ReconSlots == {
    [student_id |-> t_10293, termid |-> "T1", classid |-> t_ENGL101_V_PRO_3,
     term_startdate |-> "2022-10"],
    [student_id |-> t_10294, termid |-> "T1", classid |-> t_ENGL101_V_PRO_3,
     term_startdate |-> "2022-10"],
    [student_id |-> t_10293, termid |-> "T1", classid |-> t_ENGL101_XX,
     term_startdate |-> "2022-10"],
    [student_id |-> t_10293, termid |-> "T1", classid |-> nan,
     term_startdate |-> "2022-10"],
    [student_id |-> t_00123, termid |-> "T1", classid |-> t_ENGL101_V_PRO_3,
     term_startdate |-> "2022-10"] }
ReconRosters == SeqsUpTo(ReconSlots, MaxSlots)

\* The files of a folder: two with a table, one with no identifier run
FolderFiles == {
    << <<t_ID, t_3DAY>>, <<t_10293, t_87_5>>, <<t_10294, t_N_A>> >>,
    << <<t_ID, t_3DAY>>, <<t_10294, t_AB>>, <<t_10293, t_87_5>> >>,
    << <<t_ID, t_3DAY>>, <<t_10293, t_87_5>> >> }

---------------------------------------------------------------------------
(* The locator run on its own: one call on a grid, ragged rows included *)

InitLocator ==
    /\ lines \in LocGrids
    /\ year_month = NoYearMonth
    /\ legacy_df = <<>>
    /\ pc = "call_locator"
    /\ terms = <<>>
    /\ start_row = None
    /\ id_col_idx = None
    /\ row_i = 0
    /\ slot_i = 0
    /\ updates = <<>>
    /\ log = <<>>
    /\ grade_columns = <<>>
    /\ files = <<lines>>
    /\ DedupIdle
    /\ file_no = 1
    /\ component_name = <<>>
    /\ header_columns = <<>>
    /\ matched_header_idx = None

LocatorCall ==
    /\ pc = "call_locator"
    /\ start_row' = find_data_start_and_id_column(lines)[1]
    /\ id_col_idx' = find_data_start_and_id_column(lines)[2]
    /\ pc' = "located"
    /\ UNCHANGED <<dedup_vars, files, file_no,
                   lines, year_month, legacy_df, terms, row_i, slot_i, updates, log,
                   grade_columns, component_name, header_columns, matched_header_idx>>

NextLocator == LocatorCall

SpecLocator == InitLocator /\ [][NextLocator]_vars

---------------------------------------------------------------------------
(* The matcher run on its own: one call on a label and a header list *)

InitMatcher ==
    /\ lines = <<>>
    /\ year_month = NoYearMonth
    /\ legacy_df = <<>>
    /\ pc = "call_matcher"
    /\ terms = <<>>
    /\ start_row = None
    /\ id_col_idx = None
    /\ row_i = 0
    /\ slot_i = 0
    /\ updates = <<>>
    /\ log = <<>>
    /\ grade_columns = <<>>
    /\ files = <<lines>>
    /\ DedupIdle
    /\ file_no = 1
    /\ component_name \in MatchLabels
    /\ header_columns \in SeqsUpTo(MatchHeaders, MaxHeaders)
    /\ matched_header_idx = None

MatcherCall ==
    /\ pc = "call_matcher"
    /\ matched_header_idx' = find_matching_column_index(component_name, header_columns)
    /\ pc' = "matched"
    /\ UNCHANGED <<dedup_vars, files, file_no,
                   lines, year_month, legacy_df, terms, start_row, id_col_idx, row_i,
                   slot_i, updates, log, grade_columns, component_name, header_columns>>

NextMatcher == MatcherCall

SpecMatcher == InitMatcher /\ [][NextMatcher]_vars

---------------------------------------------------------------------------
(* The candidate-column filter run on its own: one header row and one
   identifier column *)

InitClassifier ==
    /\ lines = <<>>
    /\ year_month = NoYearMonth
    /\ legacy_df = <<>>
    /\ pc = "call_classifier"
    /\ terms = <<>>
    /\ start_row = None
    /\ id_col_idx \in ClassIdCols
    /\ row_i = 0
    /\ slot_i = 0
    /\ updates = <<>>
    /\ log = <<>>
    /\ grade_columns = <<>>
    /\ files = <<lines>>
    /\ DedupIdle
    /\ file_no = 1
    /\ component_name = <<>>
    /\ header_columns \in SeqsUpTo(ClassHeaders, MaxClassCols)
    /\ matched_header_idx = None

ClassifierCall ==
    /\ pc = "call_classifier"
    /\ grade_columns' = grade_columns_with_indices(header_columns, id_col_idx)
    /\ pc' = "candidates"
    /\ UNCHANGED <<dedup_vars, files, file_no,
                   lines, year_month, legacy_df, terms, start_row, id_col_idx, row_i,
                   slot_i, updates, log, component_name, header_columns,
                   matched_header_idx>>

NextClassifier == ClassifierCall

SpecClassifier == InitClassifier /\ [][NextClassifier]_vars

---------------------------------------------------------------------------
(* main and process_consolidated_file, for one file of the consolidated folder *)

Init ==
    /\ \/ /\ year_month = "2022-10"
          /\ lines \in Files
          /\ legacy_df \in Rosters
       \/ /\ year_month = NoYearMonth
          /\ lines \in Files
          /\ legacy_df = <<>>
    /\ pc = "main"
    /\ terms = <<>>
    /\ start_row = None
    /\ id_col_idx = None
    /\ row_i = 0
    /\ slot_i = 0
    /\ updates = <<>>
    /\ log = <<>>
    /\ grade_columns = <<>>
    /\ files = <<lines>>
    /\ DedupIdle
    /\ file_no = 1
    /\ component_name = <<>>
    /\ header_columns = <<>>
    /\ matched_header_idx = None

\* The first occurrences of the elements of seq, in order: Series.unique()
RECURSIVE Unique(_)
Unique(seq) ==
    IF seq = <<>> THEN <<>>
    ELSE LET front == Unique(SubSeq(seq, 1, Len(seq) - 1))
             x     == seq[Len(seq)]
         IN  IF \E i \in 1..Len(front) : front[i] = x THEN front ELSE Append(front, x)

\* matching_term_df['termid'].unique()
matching_termids(roster, ym) ==
    LET InMonth(slot) == slot.term_startdate = ym
        matching_term_df == SelectSeq(roster, InMonth)
    IN  Unique([i \in 1..Len(matching_term_df) |-> matching_term_df[i].termid])

\* A variant of student_legacy_data that drops a slot equal to an earlier slot
\* of the roster (drop_duplicates)
student_legacy_data_Distinct(roster, ym, termid, student_id) ==
    LET Mine(i) == /\ roster[i].term_startdate = ym
                   /\ roster[i].termid = termid
                   /\ roster[i].student_id = student_id
                   /\ \A j \in 1..(i - 1) : roster[j] # roster[i]
    IN  SelectSeq([i \in 1..Len(roster) |-> i], Mine)

\* The rows of student_legacy_data, as positions in the roster: the slots of
\* term_specific_legacy_df (the file's month, the term) of the student
student_legacy_data(roster, ym, termid, student_id) ==
    LET Mine(i) == /\ roster[i].term_startdate = ym
                   /\ roster[i].termid = termid
                   /\ roster[i].student_id = student_id
    IN  SelectSeq([i \in 1..Len(roster) |-> i], Mine)

\* The body of the loop over the files of main, up to the first call of
\* process_consolidated_file
main_file ==
    /\ pc = "main"
    /\ IF year_month = NoYearMonth
       THEN /\ log' = Append(log, "NO_YEAR_MONTH")
            /\ terms' = <<>>
            /\ pc' = "run_done"
       ELSE IF matching_termids(legacy_df, year_month) = <<>>
       THEN /\ log' = Append(log, "NO_TERM")
            /\ terms' = <<>>
            /\ pc' = "run_done"
       ELSE /\ log' = log
            /\ terms' = matching_termids(legacy_df, year_month)
            /\ pc' = "LOADED"
    /\ UNCHANGED <<dedup_vars, files, file_no,
                   lines, year_month, legacy_df, start_row, id_col_idx, row_i, slot_i,
                   updates, grade_columns, component_name, header_columns,
                   matched_header_idx>>

\* start_row, id_col_idx = find_data_start_and_id_column(file_path)
locate ==
    /\ pc = "LOADED"
    /\ start_row' = find_data_start_and_id_column(lines)[1]
    /\ id_col_idx' = find_data_start_and_id_column(lines)[2]
    /\ pc' = "LOCATED"
    /\ UNCHANGED <<dedup_vars, files, file_no,
                   lines, year_month, legacy_df, terms, row_i, slot_i, updates, log,
                   grade_columns, component_name, header_columns, matched_header_idx>>

\* if start_row is None or id_col_idx is None: SKIPPING, return
not_found ==
    /\ pc = "LOCATED"
    /\ (start_row = None \/ id_col_idx = None)
    /\ log' = Append(log, "NOT_FOUND")
    /\ pc' = "NOT_FOUND"
    /\ UNCHANGED <<dedup_vars, files, file_no,
                   lines, year_month, legacy_df, terms, start_row, id_col_idx, row_i,
                   slot_i, updates, grade_columns, component_name, header_columns,
                   matched_header_idx>>

header_row_index == start_row - 1

\* header_columns = all_rows[header_row_index]
file_header == PyIndex(lines, header_row_index)

\* The try block: the header row, the ambiguity check, the candidate columns
\* and the pandas frame
classify ==
    /\ pc = "LOCATED"
    /\ start_row # None
    /\ id_col_idx # None
    /\ IF AmbiguousHeaders(file_header)
       THEN /\ log' = Append(log, "AMBIGUOUS_HEADERS")
            /\ pc' = "AMBIGUOUS_HEADERS"
            /\ row_i' = row_i
            /\ grade_columns' = grade_columns
       ELSE IF ReadRaises(file_header, header_row_index, id_col_idx)
       THEN /\ log' = Append(log, "READ_ERROR")
            /\ pc' = "READ_ERROR"
            /\ row_i' = row_i
            /\ grade_columns' = grade_columns_with_indices(file_header, id_col_idx)
       ELSE /\ log' = log
            /\ pc' = "CLASSIFIED"
            /\ row_i' = 1
            /\ grade_columns' = grade_columns_with_indices(file_header, id_col_idx)
    /\ slot_i' = 0
    /\ UNCHANGED <<dedup_vars, files, file_no,
                   lines, year_month, legacy_df, terms, start_row, id_col_idx, updates,
                   component_name, header_columns, matched_header_idx>>

df == df_rows(lines, header_row_index, id_col_idx)

\* The head of the loop over df.iterrows(): the next row, its student id and
\* the student's slots of the term
reconcile_row ==
    /\ pc = "CLASSIFIED"
    /\ slot_i = 0
    /\ IF row_i > Len(df)
       THEN /\ pc' = "RECONCILED"
            /\ UNCHANGED <<row_i, slot_i>>
       ELSE LET student_id == df[row_i].student_id
                data == student_legacy_data(legacy_df, year_month, Head(terms), student_id)
            IN  /\ pc' = pc
                /\ IF student_id = <<>> \/ data = <<>>
                   THEN row_i' = row_i + 1 /\ slot_i' = 0
                   ELSE row_i' = row_i /\ slot_i' = 1
    /\ UNCHANGED <<dedup_vars, files, file_no,
                   lines, year_month, legacy_df, terms, start_row, id_col_idx, updates,
                   log, grade_columns, component_name, header_columns,
                   matched_header_idx>>

\* component_name = classid.split('!$')[-1]
component_of(classid) == SplitLast(classid, <<"!", "$">>)

\* A variant of matched_column that falls back to the first candidate column
\* when the matcher returns None
matched_column_FallsBack(cname, hc, idc) ==
    LET m == find_matching_column_index(cname, grade_column_headers(hc, idc))
    IN  IF m = None /\ grade_column_headers(hc, idc) # <<>> THEN 0 ELSE m

\* matched_header_idx = find_matching_column_index(component_name, grade_column_headers)
matched_column(cname, hc, idc) ==
    find_matching_column_index(cname, grade_column_headers(hc, idc))

\* A variant of original_grade_col_idx that takes the matched index as an
\* index into the header row
original_grade_col_idx_SamePosition(hc, idc, m) == m

\* original_grade_col_idx = grade_columns_with_indices[matched_header_idx][0]
original_grade_col_idx(hc, idc, m) == grade_columns_with_indices(hc, idc)[m + 1][1]

\* A variant of grade_outcome without the except clause: a cell that float()
\* rejects raises out of the loops
grade_outcome_Uncaught(grade) ==
    IF IsNA(grade) \/ Strip(grade) = <<>> THEN "skip"
    ELSE IF IsFloatText(grade) THEN "emit" ELSE "raise"

\* if pd.notna(grade) and str(grade).strip() != '': try: float(grade) ... print
\* except (ValueError, TypeError): pass
grade_outcome(grade) ==
    IF IsNA(grade) \/ Strip(grade) = <<>> THEN "skip"
    ELSE IF IsFloatText(grade) THEN "emit" ELSE "skip"

\* The body of the loop over student_legacy_data.iterrows() for one slot.
\* classid.split raises AttributeError on a NaN classid, and row.get(grade_col_header)
\* is a Series when two columns carry the label, so that `pd.notna(grade) and ...`
\* raises: both outside every try, they end the run.
reconcile_slot ==
    /\ pc = "CLASSIFIED"
    /\ slot_i >= 1
    /\ LET row     == df[row_i]
           data    == student_legacy_data(legacy_df, year_month, Head(terms),
                                          row.student_id)
           slot    == data[slot_i]
           classid == legacy_df[slot].classid
       IN  IF classid = nan
           THEN /\ pc' = "CRASHED"
                /\ UNCHANGED <<row_i, slot_i, updates, component_name, header_columns,
                               matched_header_idx>>
           ELSE LET cname == component_of(classid)
                    m     == matched_column(cname, file_header, id_col_idx)
                    orig  == original_grade_col_idx(file_header, id_col_idx, m)
                    cols  == df_columns(file_header)
                    grade == lines[row.line + 1][orig + 1]
                    raises ==
                        /\ m # None
                        /\ \/ Cardinality({j \in 1..Len(cols) : cols[j] = cols[orig + 1]}) > 1
                           \/ grade_outcome(grade) = "raise"
                IN  /\ component_name' = cname
                    /\ header_columns' = grade_column_headers(file_header, id_col_idx)
                    /\ matched_header_idx' = m
                    /\ IF raises
                       THEN /\ pc' = "CRASHED"
                            /\ UNCHANGED <<row_i, slot_i, updates>>
                       ELSE /\ pc' = pc
                            /\ IF slot_i = Len(data)
                               THEN row_i' = row_i + 1 /\ slot_i' = 0
                               ELSE row_i' = row_i /\ slot_i' = slot_i + 1
                            /\ IF m # None /\ grade_outcome(grade) = "emit"
                               THEN updates' = Append(updates,
                                        [student_id |-> row.student_id,
                                         classid    |-> classid,
                                         grade      |-> Thousandths(grade),
                                         termid     |-> Head(terms),
                                         file       |-> file_no,
                                         line       |-> row.line,
                                         slot       |-> slot])
                               ELSE updates' = updates
    /\ UNCHANGED <<dedup_vars, files, file_no,
                   lines, year_month, legacy_df, terms, start_row, id_col_idx, log,
                   grade_columns>>

\* process_consolidated_file returns; main calls it for the next term id, or
\* the loop over the term ids ends
next_term ==
    /\ pc \in {"NOT_FOUND", "AMBIGUOUS_HEADERS", "READ_ERROR", "RECONCILED"}
    /\ terms' = Tail(terms)
    /\ pc' = IF Tail(terms) = <<>> THEN "run_done" ELSE "LOADED"
    /\ start_row' = None
    /\ id_col_idx' = None
    /\ row_i' = 0
    /\ slot_i' = 0
    /\ grade_columns' = <<>>
    /\ UNCHANGED <<dedup_vars, files, file_no,
                   lines, year_month, legacy_df, updates, log, component_name,
                   header_columns, matched_header_idx>>

Next ==
    \/ main_file
    \/ locate
    \/ not_found
    \/ classify
    \/ reconcile_row
    \/ reconcile_slot
    \/ next_term

Spec == Init /\ [][Next]_vars

\* The same run of main on a file with a header row, for rosters of the file's month
InitRecon ==
    /\ year_month = "2022-10"
    /\ lines \in ReconFiles
    /\ legacy_df \in ReconRosters
    /\ pc = "main"
    /\ terms = <<>>
    /\ start_row = None
    /\ id_col_idx = None
    /\ row_i = 0
    /\ slot_i = 0
    /\ updates = <<>>
    /\ log = <<>>
    /\ grade_columns = <<>>
    /\ files = <<lines>>
    /\ DedupIdle
    /\ file_no = 1
    /\ component_name = <<>>
    /\ header_columns = <<>>
    /\ matched_header_idx = None

SpecRecon == InitRecon /\ [][Next]_vars

\* The loop of main over the files of the folder: the next csv file, all files
\* being of the month 2022-10.  An exception raised while a file is processed
\* (pc = "CRASHED") leaves main: there is no next file then.
next_file ==
    /\ pc = "run_done"
    /\ file_no < Len(files)
    /\ file_no' = file_no + 1
    /\ lines' = files[file_no + 1]
    /\ pc' = "main"
    /\ UNCHANGED <<dedup_vars, files, year_month, legacy_df, terms, start_row, id_col_idx,
                   row_i, slot_i, updates, log, grade_columns, component_name,
                   header_columns, matched_header_idx>>

\* A run of main on a folder of one to MaxFiles files
InitFolder ==
    /\ year_month = "2022-10"
    /\ files \in SeqsUpTo(FolderFiles, MaxFiles) \ {<<>>}
    /\ file_no = 1
    /\ lines = files[1]
    /\ DedupIdle
    /\ legacy_df \in ReconRosters
    /\ pc = "main"
    /\ terms = <<>>
    /\ start_row = None
    /\ id_col_idx = None
    /\ row_i = 0
    /\ slot_i = 0
    /\ updates = <<>>
    /\ log = <<>>
    /\ grade_columns = <<>>
    /\ component_name = <<>>
    /\ header_columns = <<>>
    /\ matched_header_idx = None

NextFolder ==
    \/ Next
    \/ next_file

SpecFolder == InitFolder /\ [][NextFolder]_vars

---------------------------------------------------------------------------
(* grade_file_deduplicator.py: file names *)

\* the characters of the class [<>:"/\\|?*]
ProblemChars == {"<", ">", ":", "\"", "/", "\\", "|", "?", "*"}

\* the characters of the class [-_]
SeparatorChars == {"-", "_"}

\* re.sub(r'[S]', r, s): every character of S becomes r
SubEach(s, S, r) == [i \in 1..Len(s) |-> IF s[i] \in S THEN r ELSE s[i]]

RECURSIVE SkipRun(_, _)
SkipRun(s, S) == IF s # <<>> /\ Head(s) \in S THEN SkipRun(Tail(s), S) ELSE s

\* re.sub(r'[S]+', r, s): every maximal run of characters of S becomes one r
RECURSIVE SubRuns(_, _, _)
SubRuns(s, S, r) ==
    IF s = <<>> THEN <<>>
    ELSE IF Head(s) \in S THEN <<r>> \o SubRuns(SkipRun(s, S), S, r)
         ELSE <<Head(s)>> \o SubRuns(Tail(s), S, r)

\* s.strip(chars)
RECURSIVE StripChars(_, _)
StripChars(s, S) ==
    IF s # <<>> /\ Head(s) \in S THEN StripChars(Tail(s), S)
    ELSE IF s # <<>> /\ s[Len(s)] \in S THEN StripChars(SubSeq(s, 1, Len(s) - 1), S)
         ELSE s

\* clean_filename(text)
clean_filename(text) ==
    StripChars(SubRuns(SubRuns(SubEach(text, ProblemChars, "-"), SpaceChars, "_"),
                       SeparatorChars, "_"),
               SeparatorChars)

\* s.rfind('.'), 0-based, None when there is no dot
LastDot(name) ==
    LET at == {i \in 0..(Len(name) - 1) : name[i + 1] = "."}
    IN  IF at = {} THEN None ELSE CHOOSE i \in at : \A j \in at : j <= i

\* PurePath.suffix: a leading dot or a trailing dot starts no suffix
PathSuffix(name) ==
    LET i == LastDot(name)
    IN  IF 0 < i /\ i < Len(name) - 1 THEN SubSeq(name, i + 1, Len(name)) ELSE <<>>

\* PurePath.stem
PathStem(name) ==
    LET i == LastDot(name)
    IN  IF 0 < i /\ i < Len(name) - 1 THEN SubSeq(name, 1, i) ELSE name

\* sep.join(parts)
RECURSIVE Join(_, _)
Join(parts, sep) ==
    IF parts = <<>> THEN <<>>
    ELSE IF Len(parts) = 1 THEN parts[1]
         ELSE parts[1] \o sep \o Join(Tail(parts), sep)

\* s.replace(old, new): the occurrences of old from left to right, not overlapping
RECURSIVE Replace(_, _, _)
Replace(s, old, new) ==
    IF Len(s) < Len(old) THEN s
    ELSE IF SubSeq(s, 1, Len(old)) = old
         THEN new \o Replace(SubSeq(s, Len(old) + 1, Len(s)), old, new)
         ELSE <<Head(s)>> \o Replace(Tail(s), old, new)

\* str(n) of a natural number
RECURSIVE NatText(_)
NatText(n) == IF n < 10 THEN DigitText(n) ELSE NatText(n \div 10) \o DigitText(n % 10)

t_data == <<"d", "a", "t", "a">>
t_files == <<"f", "i", "l", "e", "s">>
t_documents == <<"d", "o", "c", "u", "m", "e", "n", "t", "s">>
t_sheet1 == <<"s", "h", "e", "e", "t", "1">>
t_sheet == <<"s", "h", "e", "e", "t">>
t_main == <<"m", "a", "i", "n">>
t_dot_csv == <<".", "c", "s", "v">>
t_dot_pdf == <<".", "p", "d", "f">>
t_dot_xlsx == <<".", "x", "l", "s", "x">>
t_dot_xls == <<".", "x", "l", "s">>
t_underscore == <<"_">>
t_version == <<"_", "v">>
t_ellipsis == <<".", ".", ".">>
t_unknown_file == <<"u", "n", "k", "n", "o", "w", "n", "_", "f", "i", "l", "e", "_">>
t_processing_summary ==
    <<"p", "r", "o", "c", "e", "s", "s", "i", "n", "g", "_", "s", "u", "m", "m", "a", "r", "y",
      ".", "t", "x", "t">>

\* the folder names generate_unique_filename leaves out
GenericFolders == {t_data, t_files, t_documents}

\* the sheet names generate_unique_filename leaves out
GenericSheets == {t_sheet1, t_sheet, t_data, t_main}

\* if len(unique_name) > 200
MaxNameLen == 200

\* The values of hash(str(filepath)) % 10000 the model draws from: str hashes
\* are salted per process, so the value is not a function of the path
UnknownIds == {7, 8}

\* generate_unique_filename(filepath, sheet_name), for a file under input_dir:
\* filepath is the record of a found file, sheet_name a text (the empty text
\* for None: `if sheet_name` takes the two alike), and unknown_id the value of
\* hash(str(filepath)) % 10000
generate_unique_filename(filepath, sheet_name, unknown_id) ==
    LET clean_dirs == [i \in 1..Len(filepath.dirs) |-> clean_filename(filepath.dirs[i])]
        Kept(d) == d # <<>> /\ d \notin GenericFolders
        filename_base == clean_filename(PathStem(filepath.name))
        clean_sheet == IF sheet_name = <<>> \/ ToLower(sheet_name) \in GenericSheets
                       THEN <<>>
                       ELSE clean_filename(sheet_name)
        path_parts == SelectSeq(clean_dirs, Kept)
                      \o (IF filename_base # <<>> THEN <<filename_base>> ELSE <<>>)
                      \o (IF clean_sheet # <<>> THEN <<clean_sheet>> ELSE <<>>)
        joined == Join(path_parts, t_underscore)
        unique_name == IF joined = <<>> THEN t_unknown_file \o NatText(unknown_id)
                       ELSE joined
        n == Len(path_parts)
        truncated == IF Len(path_parts) > 2
                     THEN Join(<<path_parts[1], t_ellipsis, path_parts[n - 1],
                                 path_parts[n]>>, t_underscore)
                     ELSE unique_name
        short_name == IF Len(unique_name) > MaxNameLen
                      THEN IF Len(truncated) > MaxNameLen
                           THEN SubSeq(truncated, 1, MaxNameLen)
                           ELSE truncated
                      ELSE unique_name
    IN  short_name \o t_dot_csv

\* A variant of the loop below that keeps the first name, taken or not
free_output_path_FirstName(names, output_path, original_output_path, counter, ext) ==
    output_path

\* while output_path.exists(): output_path = f"{stem}_v{counter}{ext}"; counter += 1
\* over the names the output directory holds
RECURSIVE free_output_path(_, _, _, _, _)
free_output_path(names, output_path, original_output_path, counter, ext) ==
    IF output_path \notin names THEN output_path
    ELSE free_output_path(names,
                          PathStem(original_output_path) \o t_version \o NatText(counter)
                              \o ext,
                          original_output_path, counter + 1, ext)

\* the path process_csv_file and process_excel_file write to
csv_output_path(names, filepath, sheet_name, unknown_id) ==
    LET output_filename == generate_unique_filename(filepath, sheet_name, unknown_id)
    IN  free_output_path(names, output_filename, output_filename, 1, t_dot_csv)

\* the path process_pdf_file writes to
pdf_output_path(names, filepath, unknown_id) ==
    LET output_filename == Replace(generate_unique_filename(filepath, <<>>, unknown_id),
                                   t_dot_csv, t_dot_pdf)
    IN  free_output_path(names, output_filename, output_filename, 1,
                         PathSuffix(output_filename))

---------------------------------------------------------------------------
(* grade_file_deduplicator.py: content hashes *)

\* get_csv_content_hash's None, written as a string so that it compares with
\* the hashes
NoHash == "None"

\* what a found file holds: for a csv file the canonical text of its table
\* (columns sorted, df.to_string), for any other file its bytes
Contents == {"content 1", "content 2"}

\* hashlib.sha256(...).hexdigest(), by a table of the digests of Contents
sha256(content) ==
    CASE content = "content 1" -> "5e884898"
      [] content = "content 2" -> "6b86b273"

\* filepath.suffix.lower()
suffix_lower(filepath) == ToLower(PathSuffix(filepath.name))

\* get_csv_content_hash(filepath).  The states of a csv file: "ok", "empty" (a
\* header and no rows), "nodata" (no columns: EmptyDataError), "bad_lines" (rows
\* that on_bad_lines='skip' drops and the default read_csv refuses) and
\* "unreadable"
get_csv_content_hash(filepath) ==
    CASE filepath.state = "empty" -> "EMPTY_FILE"
      [] filepath.state = "nodata" -> "HEADER_ONLY_FILE"
      [] filepath.state = "unreadable" -> NoHash
      [] OTHER -> sha256(filepath.content)

\* get_binary_hash(filepath)
get_binary_hash(filepath) ==
    IF filepath.state = "unreadable" THEN "" ELSE sha256(filepath.content)

\* get_content_hash(filepath)
get_content_hash(filepath) ==
    IF suffix_lower(filepath) = t_dot_csv THEN get_csv_content_hash(filepath)
    ELSE get_binary_hash(filepath)

\* str(filepath)
PathOf(filepath) == <<filepath.dirs, filepath.name>>

\* A variant of the test below that takes the empty string for a hash
not_file_hash_NoneOnly(file_hash) == file_hash = NoHash

\* not file_hash
not_file_hash(file_hash) == file_hash \in {NoHash, ""}

\* d[key] = value
DictSet(d, key, value) ==
    [k \in DOMAIN d \cup {key} |-> IF k = key THEN value ELSE d[k]]

---------------------------------------------------------------------------
(* grade_file_deduplicator.py: process_all_files *)

t_a_space_b_csv == <<"a", " ", "b", ".", "c", "s", "v">>
t_a_b_csv == <<"a", "_", "b", ".", "c", "s", "v">>
t_a_dash_b_csv == <<"a", "-", "b", ".", "c", "s", "v">>
t_a_space_b_pdf == <<"a", " ", "b", ".", "p", "d", "f">>
t_a_b_PDF == <<"a", "_", "b", ".", "P", "D", "F">>
t_a_xlsx == <<"a", ".", "x", "l", "s", "x">>
t_dash_csv == <<"-", ".", "c", "s", "v">>
t_b == <<"b">>
t_Sheet1 == <<"S", "h", "e", "e", "t", "1">>
t_dash_b == <<"-", "b">>
t_c == <<"c">>
t_a_xls == <<"a", ".", "x", "l", "s">>
t_a_csv == <<"a", ".", "c", "s", "v">>
t_a_b_v1_csv == <<"a", "_", "b", "_", "v", "1", ".", "c", "s", "v">>

\* a found file that is no workbook
PlainFile(dirs, name, content, state) ==
    [dirs |-> dirs, name |-> name, content |-> content, state |-> state, sheets |-> <<>>]

\* The files find_all_files can find: os.walk yields every path once.  Six csv
\* files whose names all clean to a_b.csv, two pdf files that clean to a_b.pdf,
\* a csv file whose name cleans to nothing, and a workbook whose sheets give
\* a_b.csv (twice), a.csv and nothing (an empty sheet), and a workbook that
\* cannot be opened.
FoundFiles == {
    PlainFile(<<>>, t_a_space_b_csv, "content 1", "ok"),
    PlainFile(<<>>, t_a_b_csv, "content 2", "ok"),
    PlainFile(<<>>, t_a_dash_b_csv, "content 1", "ok"),
    PlainFile(<<t_data>>, t_a_b_csv, "content 1", "empty"),
    PlainFile(<<t_files>>, t_a_b_csv, "content 2", "unreadable"),
    PlainFile(<<t_documents>>, t_a_b_csv, "content 2", "bad_lines"),
    PlainFile(<<>>, t_dash_csv, "content 2", "ok"),
    PlainFile(<<>>, t_a_space_b_pdf, "content 2", "ok"),
    PlainFile(<<>>, t_a_b_PDF, "content 1", "unreadable"),
    [dirs |-> <<>>, name |-> t_a_xlsx, content |-> "content 1", state |-> "ok",
     sheets |-> << [name |-> t_b, state |-> "ok"], [name |-> t_Sheet1, state |-> "ok"],
                   [name |-> t_dash_b, state |-> "ok"], [name |-> t_c, state |-> "empty"] >>],
    PlainFile(<<>>, t_a_xls, "content 2", "unreadable") }

\* the files of one walk: at most this many
MaxFound == 3

\* The sequences of k distinct files of S
RECURSIVE DistinctSeqs(_, _)
DistinctSeqs(S, k) ==
    IF k = 0 THEN {<<>>}
    ELSE {Append(s, f) : <<s, f>> \in
             {p \in DistinctSeqs(S, k - 1) \X S : \A i \in 1..Len(p[1]) : p[1][i] # p[2]}}

\* what an earlier run left in the output directory
earlier_output == [kind |-> "earlier", from |-> <<>>, sheet |-> <<>>]

\* The output directories a run can start with: an empty one, and one that an
\* earlier run has written a_b.csv and a_b_v1.csv to
OutputDirs == {
    EmptyDict,
    DictSet(DictSet(EmptyDict, t_a_b_csv, earlier_output), t_a_b_v1_csv, earlier_output) }

\* df.to_csv(output_path) / shutil.copy2(filepath, output_path): the file at
\* output_path is created, or replaced when there is one
WriteOutput(dir, output_path, kind, filepath, sheet_name) ==
    DictSet(dir, output_path,
            [kind |-> kind, from |-> PathOf(filepath), sheet |-> sheet_name])

\* the file the loop of process_all_files is at
filepath_now == found_files[file_i]

\* all_output_files.extend(output_files); self.processed_files.add(str(filepath)),
\* and the loop moves to the next file
file_processed ==
    /\ processed_files' = processed_files \cup {PathOf(filepath_now)}
    /\ file_i' = file_i + 1
    /\ pc' = "for_file"

\* for filepath in files: if self.is_duplicate_file(filepath): continue
is_duplicate_file ==
    /\ pc = "for_file"
    /\ file_i <= Len(found_files)
    /\ LET file_hash == get_content_hash(filepath_now)
       IN  IF not_file_hash(file_hash)
           THEN /\ pc' = "process"
                /\ UNCHANGED <<file_i, file_hashes, duplicate_files>>
           ELSE IF file_hash \in DOMAIN file_hashes
                THEN /\ duplicate_files' = Append(duplicate_files, PathOf(filepath_now))
                     /\ file_i' = file_i + 1
                     /\ UNCHANGED <<pc, file_hashes>>
                ELSE /\ file_hashes' = DictSet(file_hashes, file_hash, PathOf(filepath_now))
                     /\ pc' = "process"
                     /\ UNCHANGED <<file_i, duplicate_files>>
    /\ UNCHANGED <<cleaner_vars, found_files, sheet_i, processed_files, output_dir,
                   all_output_files>>

\* process_csv_file(filepath): an empty table is skipped, a read error is logged
process_csv_file ==
    /\ pc = "process"
    /\ suffix_lower(filepath_now) = t_dot_csv
    /\ IF filepath_now.state = "ok"
       THEN \E unknown_id \in UnknownIds :
               LET output_path == csv_output_path(DOMAIN output_dir, filepath_now, <<>>,
                                                  unknown_id)
               IN  /\ output_dir' = WriteOutput(output_dir, output_path, "csv",
                                                filepath_now, <<>>)
                   /\ all_output_files' = Append(all_output_files, output_path)
       ELSE UNCHANGED <<output_dir, all_output_files>>
    /\ file_processed
    /\ UNCHANGED <<cleaner_vars, found_files, sheet_i, file_hashes, duplicate_files>>

\* process_pdf_file(filepath): a copy error is logged
process_pdf_file ==
    /\ pc = "process"
    /\ suffix_lower(filepath_now) = t_dot_pdf
    /\ IF filepath_now.state = "ok"
       THEN \E unknown_id \in UnknownIds :
               LET output_path == pdf_output_path(DOMAIN output_dir, filepath_now,
                                                  unknown_id)
               IN  /\ output_dir' = WriteOutput(output_dir, output_path, "pdf",
                                                filepath_now, <<>>)
                   /\ all_output_files' = Append(all_output_files, output_path)
       ELSE UNCHANGED <<output_dir, all_output_files>>
    /\ file_processed
    /\ UNCHANGED <<cleaner_vars, found_files, sheet_i, file_hashes, duplicate_files>>

\* process_excel_file(filepath), up to the loop over the sheets: a workbook that
\* cannot be opened is logged and gives no output
process_excel_file ==
    /\ pc = "process"
    /\ suffix_lower(filepath_now) \in {t_dot_xlsx, t_dot_xls}
    /\ IF filepath_now.state = "ok"
       THEN /\ pc' = "sheets"
            /\ sheet_i' = 1
            /\ UNCHANGED <<file_i, processed_files>>
       ELSE /\ file_processed
            /\ UNCHANGED sheet_i
    /\ UNCHANGED <<cleaner_vars, found_files, file_hashes, duplicate_files, output_dir,
                   all_output_files>>

\* for sheet_name in excel_file.sheet_names: one sheet.  The outputs of the
\* workbook join all_output_files in the order they are written.
process_excel_sheet ==
    /\ pc = "sheets"
    /\ sheet_i <= Len(filepath_now.sheets)
    /\ LET sheet == filepath_now.sheets[sheet_i]
       IN  IF sheet.state = "ok"
           THEN \E unknown_id \in UnknownIds :
                   LET output_path == csv_output_path(DOMAIN output_dir, filepath_now,
                                                      sheet.name, unknown_id)
                   IN  /\ output_dir' = WriteOutput(output_dir, output_path, "csv",
                                                    filepath_now, sheet.name)
                       /\ all_output_files' = Append(all_output_files, output_path)
           ELSE UNCHANGED <<output_dir, all_output_files>>
    /\ sheet_i' = sheet_i + 1
    /\ UNCHANGED <<cleaner_vars, found_files, file_i, pc, file_hashes, processed_files,
                   duplicate_files>>

\* the loop over the sheets is over: return output_files
process_excel_done ==
    /\ pc = "sheets"
    /\ sheet_i > Len(filepath_now.sheets)
    /\ file_processed
    /\ UNCHANGED <<cleaner_vars, found_files, sheet_i, file_hashes, duplicate_files,
                   output_dir, all_output_files>>

\* self.generate_summary_report(all_output_files): open(summary_file, 'w')
generate_summary_report ==
    /\ pc = "for_file"
    /\ file_i > Len(found_files)
    /\ output_dir' = DictSet(output_dir, t_processing_summary,
                             [kind |-> "summary", from |-> <<>>, sheet |-> <<>>])
    /\ pc' = "dedup_done"
    /\ UNCHANGED <<cleaner_vars, found_files, file_i, sheet_i, file_hashes, processed_files,
                   duplicate_files, all_output_files>>

\* A run of process_all_files on a fresh FileDeduplicator
InitDedup ==
    /\ found_files \in UNION {DistinctSeqs(FoundFiles, k) : k \in 1..MaxFound}
    /\ output_dir \in OutputDirs
    /\ file_i = 1
    /\ sheet_i = 1
    /\ file_hashes = EmptyDict
    /\ processed_files = {}
    /\ duplicate_files = <<>>
    /\ all_output_files = <<>>
    /\ pc = "for_file"
    /\ files = <<>>
    /\ file_no = 1
    /\ lines = <<>>
    /\ year_month = "2022-10"
    /\ legacy_df = <<>>
    /\ terms = <<>>
    /\ start_row = None
    /\ id_col_idx = None
    /\ row_i = 0
    /\ slot_i = 0
    /\ updates = <<>>
    /\ log = <<>>
    /\ grade_columns = <<>>
    /\ component_name = <<>>
    /\ header_columns = <<>>
    /\ matched_header_idx = None

NextDedup ==
    \/ is_duplicate_file
    \/ process_csv_file
    \/ process_pdf_file
    \/ process_excel_file
    \/ process_excel_sheet
    \/ process_excel_done
    \/ generate_summary_report

SpecDedup == InitDedup /\ [][NextDedup]_vars

---------------------------------------------------------------------------
(* Claims about the locator *)

\* The claims' wording: a trimmed cell of exactly 3 to 6 decimal digits
ThreeToSixDigits(cell) ==
    LET t == Strip(cell)
    IN  Len(t) \in 3..6 /\ \A i \in 1..Len(t) : t[i] \in DigitChars

\* Row r has a cell in column c and it qualifies (a row too short for c does not)
QualifiesAt(ls, r, c) ==
    /\ r < Len(ls)
    /\ c < Len(ls[r + 1])
    /\ ThreeToSixDigits(ls[r + 1][c + 1])

\* Rows r and r+1 are vertically adjacent qualifying cells of column c
RunAt(ls, r, c) == QualifiesAt(ls, r, c) /\ QualifiesAt(ls, r + 1, c)

RunCols(ls) == {c \in 0..(max_cols(ls) - 1) : \E r \in 0..(Len(ls) - 1) : RunAt(ls, r, c)}

\* Lowest column holding a run, and the first row of the earliest run in it
FirstFound(ls) ==
    IF RunCols(ls) = {} THEN <<None, None>>
    ELSE LET c == Min(RunCols(ls))
         IN  <<Min({r \in 0..(Len(ls) - 1) : RunAt(ls, r, c)}), c>>

SameWidth(ls) == \A i, j \in 1..Len(ls) : Len(ls[i]) = Len(ls[j])

\* C2: on a grid whose rows all have the same width, the locator returns the
\* lowest column holding two vertically adjacent qualifying cells and the first
\* row of the earliest such run in it, and (None, None) exactly when no column
\* holds such a run (the empty grid included).
C2_FirstFound ==
    (pc = "located" /\ SameWidth(lines)) =>
        <<start_row, id_col_idx>> = FirstFound(lines)

\* C2 witness: a run found in column 1 from row 1 on, column 0 holding no run
\* although it holds an identifier
C2_Witness ==
    /\ pc = "located"
    /\ SameWidth(lines)
    /\ Len(lines) = 3
    /\ start_row = 1
    /\ id_col_idx = 1
    /\ \E r \in 0..2 : QualifiesAt(lines, r, 0)

\* C2 witness of the not-found half: the empty grid
C2_WitnessEmpty == pc = "located" /\ lines = <<>> /\ start_row = None

\* C3: a row too short for the scanned column is treated exactly like a row with
\* a non-qualifying cell there: it ends the run, so the locator's answer on any
\* grid, ragged or not, is the first run of two adjacent rows that both have a
\* qualifying cell in the column.
C3_ShortRowEndsRun ==
    pc = "located" => <<start_row, id_col_idx>> = FirstFound(lines)

---------------------------------------------------------------------------
(* Claims about the matcher *)

\* a equals b when letter case is ignored
EqualsIgnoreCase(a, b) == ToLower(a) = ToLower(b)

ExactHeaders(label, hs) ==
    {i \in 1..Len(hs) : EqualsIgnoreCase(label, Strip(hs[i]))}

\* C8: when some header, trimmed, equals the label case-insensitively, the
\* matcher returns the lowest index of such a header, whatever the heuristic
\* rules would pick.
C8_ExactMatchPrecedence ==
    (pc = "matched" /\ ExactHeaders(component_name, header_columns) # {}) =>
        matched_header_idx = Min(ExactHeaders(component_name, header_columns)) - 1

\* C8 witness: label WRITING, whose rule keyword WRITING is contained in the
\* header at index 0, is matched to the exactly equal header at index 1
C8_Witness ==
    /\ pc = "matched"
    /\ component_name = t_WRITING
    /\ header_columns = <<t_IEAP_WRITING_TEST, t_WRITING>>
    /\ matched_header_idx = 1

Padded(label) == <<" ">> \o label \o <<" ">>

\* C9: the label is uppercased and trimmed before matching: the result for a
\* label is the result for the label with whitespace around it and for the
\* lowercased label.
C9_LabelNormalized ==
    pc = "matched" =>
        /\ find_matching_column_index(Padded(component_name), header_columns)
               = matched_header_idx
        /\ find_matching_column_index(ToLower(component_name), header_columns)
               = matched_header_idx

\* The keywords of rule r that some header contains (case-insensitively), by position
KeywordHits(r, hs) ==
    {k \in 1..Len(rules[r].header_keys) :
        \E i \in 1..Len(hs) : Contains(ToLower(hs[i]), ToLower(rules[r].header_keys[k]))}

\* The rules one of whose prefixes the label starts with (case-insensitively)
RulesOf(label) ==
    {r \in 1..Len(rules) :
        \E k \in 1..Len(rules[r].component_keys) :
            StartsWith(ToLower(label), ToLower(rules[r].component_keys[k]))}

\* C10: when no header equals the label and a rule's prefix matches the label
\* and some header contains one of the rule's keywords, the matcher returns the
\* lowest index of a header containing the first, in listed order, of the
\* keywords that any header contains.
C10_KeywordPriority ==
    (pc = "matched" /\ ExactHeaders(component_name, header_columns) = {}) =>
        \A r \in RulesOf(component_name) :
            KeywordHits(r, header_columns) # {} =>
                LET kw == rules[r].header_keys[Min(KeywordHits(r, header_columns))]
                IN  matched_header_idx =
                        Min({i \in 1..Len(header_columns) :
                                Contains(ToLower(header_columns[i]), ToLower(kw))}) - 1

\* C10 witness: V-PRO-3 against ["3 DAY", "VENTURE"] is matched to VENTURE, the
\* first keyword, and not to 3 DAY, the first header
C10_Witness ==
    /\ pc = "matched"
    /\ component_name = t_V_PRO_3
    /\ header_columns = <<t_3DAY, t_VENTURE>>
    /\ matched_header_idx = 1

\* No prefix of one rule is an initial part of, or extends, a prefix of another
\* rule: no label starts with prefixes of two rules
RulePrefixesExclusive ==
    \A r1 \in 1..Len(rules) : \A r2 \in 1..Len(rules) :
        r1 # r2 =>
            \A k1 \in 1..Len(rules[r1].component_keys) :
                \A k2 \in 1..Len(rules[r2].component_keys) :
                    ~StartsWith(rules[r1].component_keys[k1], rules[r2].component_keys[k2])

\* C11: with the rule table of the matcher, for a label that no header equals,
\* only the first rule, in table order, one of whose prefixes the label starts
\* with decides the result: without such a rule, or when no header contains any
\* of that rule's keywords, the matcher returns none, and otherwise it returns
\* a header that contains one of that rule's keywords; no later rule produces
\* a match, as no label starts with prefixes of two rules.
C11_FirstRuleOnly ==
    (pc = "matched" /\ ExactHeaders(component_name, header_columns) = {}) =>
        /\ RulePrefixesExclusive
        /\ IF RulesOf(component_name) = {}
           THEN matched_header_idx = None
           ELSE LET r == Min(RulesOf(component_name))
                IN  IF KeywordHits(r, header_columns) = {}
                    THEN matched_header_idx = None
                    ELSE /\ matched_header_idx \in 0..(Len(header_columns) - 1)
                         /\ \E k \in 1..Len(rules[r].header_keys) :
                                Contains(ToLower(header_columns[matched_header_idx + 1]),
                                         ToLower(rules[r].header_keys[k]))

\* C11 witness: V-PRO-3 starts with V-, a prefix of the first rule, and contains
\* PRO-, the prefix of the second; against ["2 DAY", "writing"], which hold a
\* keyword of the second rule and none of the first, the matcher returns none
C11_Witness ==
    /\ pc = "matched"
    /\ component_name = t_V_PRO_3
    /\ header_columns = <<t_2DAY, t_writing_padded>>
    /\ matched_header_idx = None

---------------------------------------------------------------------------
(* Claims about the candidate columns *)

\* Header i (1-based) of the row is a candidate: not the identifier column, not
\* empty once trimmed, and no stop-word in it when letter case is ignored
IsCandidate(hc, idc, i) ==
    /\ i - 1 # idc
    /\ Strip(hc[i]) # <<>>
    /\ \A w \in 1..Len(stop_words) : ~Contains(ToUpper(hc[i]), ToUpper(stop_words[w]))

\* C12: the candidate column list is exactly the (index, header) pairs of the
\* header row, in header order, whose index is not the identifier column,
\* whose header is not empty once trimmed and whose header contains no
\* stop-word as a case-insensitive substring.
C12_StopWordExclusion ==
    pc = "candidates" =>
        /\ \A k \in 1..Len(grade_columns) :
               /\ grade_columns[k][1] + 1 \in 1..Len(header_columns)
               /\ grade_columns[k][2] = header_columns[grade_columns[k][1] + 1]
               /\ IsCandidate(header_columns, id_col_idx, grade_columns[k][1] + 1)
        /\ \A i \in 1..Len(header_columns) :
               IsCandidate(header_columns, id_col_idx, i) =>
                   \E k \in 1..Len(grade_columns) : grade_columns[k][1] = i - 1
        /\ \A k \in 1..(Len(grade_columns) - 1) :
               grade_columns[k][1] < grade_columns[k + 1][1]

\* C12 witness: ["ID", "Name", "Total", "Writing", "Unnamed: 4"] with the
\* identifier column 0 yields [(3, "Writing")]
C12_Witness ==
    /\ pc = "candidates"
    /\ header_columns = <<t_ID, t_Name, t_Total, t_Writing, t_Unnamed_4>>
    /\ id_col_idx = 0
    /\ grade_columns = << <<3, t_Writing>> >>

---------------------------------------------------------------------------
(* Claims about the pipeline *)

\* What an UPDATE statement prints of an update
Printed(u) == [student_id |-> u.student_id, classid |-> u.classid, grade |-> u.grade]

PrintedUpdates == [i \in 1..Len(updates) |-> Printed(updates[i])]

Count(seq, x) == Cardinality({i \in 1..Len(seq) : seq[i] = x})

\* The end-to-end scenario: header ["ID", "3 DAY"] at row 0, at least n data
\* rows from row 1 on (every row below the header has an identifier of 3 to 6
\* digits), the first being ["10293", "87.5"] and no other being student 10293,
\* and the roster being the one slot {10293, T1, ENGL101!$V-PRO-3} of the
\* file's month
EndToEndScenario(n) ==
    /\ Len(lines) >= 1 + n
    /\ lines[1] = <<t_ID, t_3DAY>>
    /\ lines[2] = <<t_10293, t_87_5>>
    /\ \A k \in 2..Len(lines) : ThreeToSixDigits(lines[k][1])
    /\ \A k \in 3..Len(lines) : DropLeadingZeros(Strip(lines[k][1])) # t_10293
    /\ year_month = "2022-10"
    /\ legacy_df = << [student_id |-> t_10293, termid |-> "T1",
                       classid |-> t_ENGL101_V_PRO_3, term_startdate |-> "2022-10"] >>

ExpectedUpdate ==
    [student_id |-> t_10293, classid |-> t_ENGL101_V_PRO_3, grade |-> 87500]

\* C1 as stated: in the end-to-end scenario with n >= 1 data rows, the run
\* emits exactly one update: student 10293, classid ENGL101!$V-PRO-3, grade
\* 87.500.
C1_EndToEnd_AsStated ==
    (pc = "run_done" /\ EndToEndScenario(1)) => PrintedUpdates = <<ExpectedUpdate>>

\* C1 as amended: in the end-to-end scenario with n >= 2 data rows, the run
\* emits exactly one update: student 10293, classid ENGL101!$V-PRO-3, grade
\* 87.500.
C1_EndToEnd ==
    (pc = "run_done" /\ EndToEndScenario(2)) => PrintedUpdates = <<ExpectedUpdate>>

\* C1 witness: a finished run of the scenario with two or more data rows and
\* its one update
C1_Witness ==
    /\ pc = "run_done"
    /\ EndToEndScenario(2)
    /\ Len(updates) = 1
    /\ updates[1].grade = 87500

\* C4: whenever the pipeline has gone past location, to the header row and
\* beyond, data_start_row >= 1: a run that starts at row 0 is treated as
\* not-found.
C4_HeaderRowAboveData ==
    pc \in {"AMBIGUOUS_HEADERS", "READ_ERROR", "CLASSIFIED", "RECONCILED", "CRASHED"}
        => start_row >= 1

\* C5: a roster slot whose classid does not contain the delimiter "!$" is
\* skipped: no update is ever emitted for it.
C5_MalformedSlotSkipped ==
    \A i \in 1..Len(updates) :
        Contains(legacy_df[updates[i].slot].classid, <<"!", "$">>)

\* The header row and candidate columns the file is classified with
LocatedHeader == lines[find_data_start_and_id_column(lines)[1]]

LocatedIdColumn == find_data_start_and_id_column(lines)[2]

\* C6: every update emitted for a (data row, roster slot) pair is backed by a
\* match and a number: the pair is a row of the student of the slot, in the
\* term being processed; the matcher returns an index for the slot's component
\* label; and the row's cell in the matched candidate column is non-empty when
\* trimmed and parses as the number that is emitted.  No update comes from a
\* pair the matcher returns none for.
C6_Soundness ==
    \A i \in 1..Len(updates) :
        LET u     == updates[i]
            slot  == legacy_df[u.slot]
            cands == grade_columns_with_indices(LocatedHeader, LocatedIdColumn)
            m     == find_matching_column_index(
                         component_of(slot.classid),
                         [k \in 1..Len(cands) |-> cands[k][2]])
        IN  /\ slot.termid = u.termid
            /\ slot.classid = u.classid
            /\ slot.student_id = u.student_id
            /\ m # None
            /\ LET cell == lines[u.line + 1][cands[m + 1][1] + 1]
               IN  /\ Strip(cell) # <<>>
                   /\ IsFloatText(cell)
                   /\ u.grade = Thousandths(cell)

\* C6 witness: a finished run with an update read from a candidate column whose
\* position in the candidate list differs from its column in the file, and a
\* slot of the same student and term whose label the matcher finds no column for
C6_Witness ==
    /\ pc = "run_done"
    /\ Len(lines) >= 1
    /\ Len(lines[1]) = 3
    /\ \E i \in 1..Len(updates) : updates[i].grade = 87500
    /\ \E k \in 1..Len(legacy_df) :
           /\ legacy_df[k].classid = t_ENGL101_XX
           /\ \A i \in 1..Len(updates) : updates[i].slot # k

\* The file has a header row (the row above the located data start) and it
\* contains both "2 DAY" and "3 DAY", case-insensitively and trimmed
HeaderRowAmbiguous ==
    /\ FirstFound(lines)[1] # None
    /\ FirstFound(lines)[1] >= 1
    /\ LET h == lines[FirstFound(lines)[1]]
       IN  /\ \E i \in 1..Len(h) : EqualsIgnoreCase(Strip(h[i]), t_2DAY)
           /\ \E i \in 1..Len(h) : EqualsIgnoreCase(Strip(h[i]), t_3DAY)

\* C7: a run that processes a file whose header row contains both "2 DAY" and
\* "3 DAY" emits zero updates and exactly one manual-review signal, whatever
\* the data rows and the roster contain.
C7_AmbiguousRejectedOnce ==
    (/\ pc = "run_done"
     /\ HeaderRowAmbiguous
     /\ matching_termids(legacy_df, year_month) # <<>>) =>
        /\ updates = <<>>
        /\ Count(log, "AMBIGUOUS_HEADERS") = 1

---------------------------------------------------------------------------
(* Claims about the reconciliation loops *)

\* What process_consolidated_file makes of the file: the location of the
\* table, whether the file gets as far as the loops, and then the candidate
\* columns, the frame read below the header row, and for each roster position
\* the candidate column matched for the slot's component label (None when the
\* slot has no label, its classid being NaN, or the label matches no column)
FileViewOf(ls) ==
    LET loc == find_data_start_and_id_column(ls)
        hc  == PyIndex(ls, loc[1] - 1)
        ok  == /\ loc[1] # None
               /\ ~AmbiguousHeaders(hc)
               /\ ~ReadRaises(hc, loc[1] - 1, loc[2])
    IN  [classified |-> ok,
         id_col     |-> loc[2],
         candidates |-> IF ok THEN grade_columns_with_indices(hc, loc[2]) ELSE <<>>,
         frame      |-> IF ok THEN df_rows(ls, loc[1] - 1, loc[2]) ELSE <<>>,
         match      |-> [p \in 1..Len(legacy_df) |->
                            IF ~ok \/ legacy_df[p].classid = nan THEN None
                            ELSE find_matching_column_index(
                                     component_of(legacy_df[p].classid),
                                     grade_column_headers(hc, loc[2]))]]

FileView == FileViewOf(lines)

\* The term ids main calls process_consolidated_file with, and how many of
\* these calls have returned
FileTerms == matching_termids(legacy_df, year_month)

TermsDone == Len(FileTerms) - Len(terms)

TermPos(termid) == CHOOSE t \in 1..Len(FileTerms) : FileTerms[t] = termid

\* The roster positions of the slots of frame row k for the term
SlotsOf(v, termid, k) ==
    {p \in 1..Len(legacy_df) :
        /\ legacy_df[p].term_startdate = year_month
        /\ legacy_df[p].termid = termid
        /\ legacy_df[p].student_id = v.frame[k].student_id
        /\ v.frame[k].student_id # <<>>}

\* The (row, slot) pairs of the file, as the ghost fields of an update
Pairs(v) ==
    {[termid |-> FileTerms[x[1]], line |-> v.frame[x[2]].line, slot |-> x[3]] :
        x \in {y \in (1..Len(FileTerms)) \X (1..Len(v.frame)) \X (1..Len(legacy_df)) :
                  y[3] \in SlotsOf(v, FileTerms[y[1]], y[2])}}

FrameRowOf(v, line) == CHOOSE k \in 1..Len(v.frame) : v.frame[k].line = line

\* The candidate column matched for a pair
MatchOf(v, pr) == v.match[pr.slot]

\* The matched cell of a pair that has a matched column
MatchedCell(v, pr) == lines[pr.line + 1][v.candidates[MatchOf(v, pr) + 1][1] + 1]

\* The cell reads as a number
ParsesAsNumber(cell) == ~IsNA(cell) /\ IsFloatText(cell)

Resolvable(v, pr) == MatchOf(v, pr) # None /\ ParsesAsNumber(MatchedCell(v, pr))

\* The loops of the run have gone through the pair: in a call that has
\* returned, in an earlier row of the current call, or among the first
\* slot_i - 1 slots of the current row
Visited(v, pr) ==
    \/ TermPos(pr.termid) <= TermsDone
    \/ /\ TermPos(pr.termid) = TermsDone + 1
       /\ \/ FrameRowOf(v, pr.line) < row_i
          \/ /\ FrameRowOf(v, pr.line) = row_i
             /\ Cardinality({q \in SlotsOf(v, pr.termid, row_i) : q <= pr.slot})
                    <= slot_i - 1

PairOf(u) == [termid |-> u.termid, line |-> u.line, slot |-> u.slot]

\* Rows outer in file order, slots inner in roster order (terms in call order)
Before(a, b) ==
    \/ TermPos(a.termid) < TermPos(b.termid)
    \/ /\ a.termid = b.termid
       /\ \/ a.line < b.line
          \/ a.line = b.line /\ a.slot < b.slot

\* C13: at every point of a run, the updates emitted so far for the file are
\* the resolvable (row, slot) pairs the loops have gone through, each once, in
\* the order rows outer (file order), slots inner (roster order): nothing is
\* reordered or dropped as a duplicate, and a slot that is k times in the
\* roster gives k updates for each matching row.
C13_EmissionOrder ==
    pc # "main" =>
        LET v == FileView
            resolvable == {pr \in Pairs(v) : Resolvable(v, pr)}
        IN  /\ {PairOf(updates[i]) : i \in 1..Len(updates)}
                   = {pr \in resolvable : Visited(v, pr)}
            /\ \A i \in 1..Len(updates) : \A j \in 1..Len(updates) :
                   i < j => Before(PairOf(updates[i]), PairOf(updates[j]))
            /\ \A i \in 1..Len(updates) :
                   updates[i].classid = legacy_df[updates[i].slot].classid

\* C13 witness: the slot {10293, T1, ENGL101!$V-PRO-3} twice in the roster and
\* student 10293 in two rows: four updates, (row 1, slot 1), (row 1, slot 2),
\* (row 2, slot 1), (row 2, slot 2)
C13_Witness ==
    /\ pc = "run_done"
    /\ Len(legacy_df) = 2
    /\ legacy_df[1] = legacy_df[2]
    /\ Len(updates) = 4
    /\ <<updates[1].line, updates[1].slot>> = <<1, 1>>
    /\ <<updates[2].line, updates[2].slot>> = <<1, 2>>
    /\ <<updates[3].line, updates[3].slot>> = <<2, 1>>
    /\ <<updates[4].line, updates[4].slot>> = <<2, 2>>

\* The pair has a matched column whose cell does not read as a number (text
\* such as "AB", an NA token such as "N/A", or nothing)
Unparseable(v, pr) == MatchOf(v, pr) # None /\ ~ParsesAsNumber(MatchedCell(v, pr))

\* The pair the inner loop is at
AtPair(v, pr) ==
    /\ TermPos(pr.termid) = TermsDone + 1
    /\ FrameRowOf(v, pr.line) = row_i
    /\ Cardinality({q \in SlotsOf(v, pr.termid, row_i) : q <= pr.slot}) = slot_i

\* C14: a pair whose matched cell does not read as a number gets no update and
\* does not end the loops: the run is never aborted at such a pair, and every
\* resolvable pair the loops go through after it has its update.
C14_GradeParseSkip ==
    pc # "main" =>
        LET v == FileView
            pairs == Pairs(v)
            emitted == {PairOf(updates[i]) : i \in 1..Len(updates)}
            owed == {pr \in pairs : Visited(v, pr) /\ Resolvable(v, pr)}
        IN  \A bad \in {pr \in pairs : Unparseable(v, pr)} :
                /\ bad \notin emitted
                /\ ~(pc = "CRASHED" /\ AtPair(v, bad))
                /\ Visited(v, bad) =>
                       \A pr \in owed : Before(bad, pr) => pr \in emitted

\* C14 witness: row ["10294", "AB"] above row ["10293", "87.5"], both students
\* with a V-PRO-3 slot: the run ends with the one update of the second row
C14_Witness ==
    /\ pc = "run_done"
    /\ lines = << <<t_ID, t_3DAY>>, <<t_10294, t_AB>>, <<t_10293, t_87_5>> >>
    /\ Len(legacy_df) = 2
    /\ legacy_df[1].student_id = t_10294
    /\ legacy_df[1].classid = t_ENGL101_V_PRO_3
    /\ Len(updates) = 1
    /\ updates[1].line = 2
    /\ updates[1].student_id = t_10293

\* The trimmed text of the identifier cell of a line of the file
IdCellText(line, idc) == Strip(lines[line + 1][idc + 1])

\* C15: the student id the loop looks the roster up with, and the student id
\* of every update, is the trimmed text of the identifier cell as it is in the
\* file ("00123" stays "00123").
C15_OpaqueStudentId ==
    /\ (pc = "CLASSIFIED" /\ row_i \in 1..Len(df)) =>
           df[row_i].student_id = IdCellText(df[row_i].line, id_col_idx)
    /\ \A i \in 1..Len(updates) :
           updates[i].student_id = IdCellText(updates[i].line, FileView.id_col)

\* C16: no error aborts the run: a failure inside the loops over the rows and
\* the slots (a classid that is not a text, a matched column that cannot be
\* read) is a skip, never an exception that ends main.
C16_NoErrorAbortsRun == pc # "CRASHED"

\* A step that skips the file (not found, ambiguous headers, read error), a
\* row (no student id, or no roster slot of the student for the term) or a
\* (row, slot) pair (no matched column, or a cell that is not a number)
SkipStep ==
    \/ pc = "LOCATED" /\ pc' \in {"NOT_FOUND", "AMBIGUOUS_HEADERS", "READ_ERROR"}
    \/ pc = "CLASSIFIED" /\ pc' = "CLASSIFIED" /\ slot_i = 0 /\ row_i' = row_i + 1
    \/ pc = "CLASSIFIED" /\ pc' = "CLASSIFIED" /\ slot_i >= 1 /\ updates' = updates

\* C17: every skip is observable: a step that skips the file, a row or a
\* (row, slot) pair writes a line to the log.
C17_ObservableSkips == [][SkipStep => Len(log') > Len(log)]_vars

\* C18: a file that fails a detection stage (table not found, ambiguous
\* headers) goes through that stage once and is reported as skipped once,
\* however many term ids the roster has for the file's month: the log never
\* holds two skip lines of these stages.
C18_SkippedOnce ==
    Count(log, "NOT_FOUND") + Count(log, "AMBIGUOUS_HEADERS") <= 1

\* The steps of one call of process_consolidated_file that the state machine
\* LOADED -> LOCATED -> (NOT_FOUND | AMBIGUOUS_HEADERS | CLASSIFIED -> RECONCILED)
\* allows; the call returns from a terminal state only, and an update is
\* emitted in CLASSIFIED only
StateMachineStep ==
    /\ pc = "LOADED" => pc' = "LOCATED"
    /\ pc = "LOCATED" => pc' \in {"NOT_FOUND", "AMBIGUOUS_HEADERS", "CLASSIFIED"}
    /\ pc = "CLASSIFIED" => pc' \in {"CLASSIFIED", "RECONCILED"}
    /\ pc \in {"NOT_FOUND", "AMBIGUOUS_HEADERS", "RECONCILED"} => pc' \in {"LOADED", "run_done"}
    /\ pc' \in {"main", "LOADED", "LOCATED", "NOT_FOUND", "AMBIGUOUS_HEADERS",
                 "CLASSIFIED", "RECONCILED", "run_done"}
    /\ updates' # updates => pc = "CLASSIFIED"

\* A call that is in NOT_FOUND or AMBIGUOUS_HEADERS has emitted no update
NoUpdateOnSkippedPath ==
    pc \in {"NOT_FOUND", "AMBIGUOUS_HEADERS"} =>
        \A i \in 1..Len(updates) : updates[i].termid # Head(terms)

\* C19: every call of process_consolidated_file follows LOADED -> LOCATED ->
\* (NOT_FOUND | AMBIGUOUS_HEADERS | CLASSIFIED -> RECONCILED) and ends in one
\* of NOT_FOUND, AMBIGUOUS_HEADERS and RECONCILED; updates are emitted only
\* after CLASSIFIED, and none on a path that ends in NOT_FOUND or
\* AMBIGUOUS_HEADERS.
C19_StateMachine == []NoUpdateOnSkippedPath /\ [][StateMachineStep]_vars

---------------------------------------------------------------------------
(* Claims about the files of a folder *)

\* The resolvable (row, slot) pairs of a grid and the roster, from the grid
\* and the roster alone
ExpectedPairs(ls) ==
    LET v == FileViewOf(ls)
    IN  {pr \in Pairs(v) :
            /\ v.match[pr.slot] # None
            /\ ParsesAsNumber(ls[pr.line + 1][v.candidates[v.match[pr.slot] + 1][1] + 1])}

\* The updates emitted for file f of the folder, in order
UpdatesOfFile(f) ==
    LET OfFile(u) == u.file = f
    IN  SelectSeq(updates, OfFile)

\* main has left its loop over the files, at the end of the folder or by an
\* exception
RunEnded == pc = "CRASHED" \/ (pc = "run_done" /\ file_no = Len(files))

---------------------------------------------------------------------------
(* Claims about the matched column *)

\* The grid column (1-based) of candidate m (0-based) of a header row: the
\* candidate headers in header order, counted from the left
CandidateColumn(hc, idc, m) ==
    CHOOSE i \in 1..Len(hc) :
        /\ IsCandidate(hc, idc, i)
        /\ Cardinality({j \in 1..(i - 1) : IsCandidate(hc, idc, j)}) = m

\* C22: the index the matcher returns is an index into the candidate header
\* list, and the grade of every update is the cell of its data row in the
\* grid column of that candidate (the column under the matched candidate
\* header), not the cell at that position of the unfiltered row.
C22_MatchedColumnRead ==
    [][updates' # updates =>
          LET u == updates'[Len(updates')]
              m == matched_header_idx'
              c == CandidateColumn(file_header, id_col_idx, m)
          IN  /\ updates' = Append(updates, u)
              /\ m \in 0..(Len(header_columns') - 1)
              /\ header_columns'[m + 1] = file_header[c]
              /\ u.grade = Thousandths(lines[u.line + 1][c])]_vars

\* C22 witness: under the header row ["ID", "TOTAL", "3 DAY"] the only
\* candidate is "3 DAY": V-PRO-3 is matched to candidate 0 and the update of
\* row ["10293", "70", "87.5"] carries 87.500, the cell of grid column 2, not
\* the cell of grid column 0
C22_Witness ==
    /\ pc = "CLASSIFIED"
    /\ lines[1] = <<t_ID, t_TOTAL, t_3DAY>>
    /\ lines[2] = <<t_10293, t_70, t_87_5>>
    /\ matched_header_idx = 0
    /\ header_columns = <<t_3DAY>>
    /\ Len(updates) = 1
    /\ updates[1].line = 1
    /\ updates[1].grade = 87500

---------------------------------------------------------------------------
(* Claims about the deduplicator *)

\* the files is_duplicate_file has returned for
Checked == IF pc \in {"process", "sheets"} THEN file_i ELSE file_i - 1

\* the content hash of the k-th file of the walk
HashOf(k) == get_content_hash(found_files[k])

\* the hash of the k-th file could be computed: it is neither None nor ""
Computable(k) == HashOf(k) # NoHash /\ HashOf(k) # ""

\* an earlier file of the walk had the hash of the k-th file
EarlierSame(k) == Computable(k) /\ \E j \in 1..(k - 1) : HashOf(j) = HashOf(k)

\* the paths of the first n files that follow a file of the same hash, in order
RECURSIVE FollowersUpTo(_)
FollowersUpTo(n) ==
    IF n = 0 THEN <<>>
    ELSE FollowersUpTo(n - 1)
         \o (IF EarlierSame(n) THEN <<PathOf(found_files[n])>> ELSE <<>>)

\* C23: at every point of process_all_files, file_hashes maps the computable
\* hashes of the files checked so far, each to the first file of the walk with
\* that hash; duplicate_files lists, in order, exactly the checked files that
\* follow a file of the same computable hash; only files that are not such
\* followers are in processed_files or behind an output; a file whose hash is
\* None or "" is no duplicate and no value of file_hashes; and processed_files
\* and duplicate_files have no path in common.
C23_FirstSeenRule ==
    /\ DOMAIN file_hashes = {HashOf(k) : k \in {j \in 1..Checked : Computable(j)}}
    /\ \A h \in DOMAIN file_hashes :
          file_hashes[h] = PathOf(found_files[Min({k \in 1..Checked : HashOf(k) = h})])
    /\ duplicate_files = FollowersUpTo(Checked)
    /\ processed_files =
          {PathOf(found_files[k]) : k \in {j \in 1..(file_i - 1) : ~EarlierSame(j)}}
    /\ \A name \in DOMAIN output_dir :
          output_dir[name].kind \in {"csv", "pdf"} =>
              \E k \in 1..Checked : /\ ~EarlierSame(k)
                                    /\ output_dir[name].from = PathOf(found_files[k])
    /\ \A k \in 1..Checked :
          ~Computable(k) =>
              /\ \A i \in 1..Len(duplicate_files) :
                    duplicate_files[i] # PathOf(found_files[k])
              /\ \A h \in DOMAIN file_hashes : file_hashes[h] # PathOf(found_files[k])
    /\ processed_files \cap {duplicate_files[i] : i \in 1..Len(duplicate_files)} = {}

\* a walk is over in which the second file had the content of the first and was
\* reported, and a file whose hash could not be computed was processed
C23_Witness ==
    /\ pc = "dedup_done"
    /\ Len(found_files) = 3
    /\ duplicate_files = <<PathOf(found_files[2])>>
    /\ file_hashes = DictSet(EmptyDict, HashOf(1), PathOf(found_files[1]))
    /\ ~Computable(3)
    /\ processed_files = {PathOf(found_files[1]), PathOf(found_files[3])}

\* the k-th name the conflict loop tries after the name g
Versioned(g, k) == PathStem(g) \o t_version \o NatText(k) \o PathSuffix(g)

\* the names generate_unique_filename can give the output w of the file f
GeneratedNames(f, w) ==
    {IF w.kind = "pdf"
     THEN Replace(generate_unique_filename(f, <<>>, u), t_dot_csv, t_dot_pdf)
     ELSE generate_unique_filename(f, w.sheet, u) : u \in UnknownIds}

\* C24: every step of process_csv_file, process_excel_file and process_pdf_file
\* that writes an output creates one file under a name the output directory did
\* not hold before the step and leaves every file the directory held as it was;
\* the name is the generated one when that is free, and otherwise the generated
\* one with the first free suffix among _v1, _v2, ...
C24_NeverOverwrites ==
    [][(pc \in {"process", "sheets"} /\ output_dir' # output_dir) =>
          \E name \in DOMAIN output_dir' \ DOMAIN output_dir :
              /\ DOMAIN output_dir' = DOMAIN output_dir \cup {name}
              /\ \A n \in DOMAIN output_dir : output_dir'[n] = output_dir[n]
              /\ output_dir'[name].from = PathOf(filepath_now)
              /\ all_output_files' = Append(all_output_files, name)
              /\ \E g \in GeneratedNames(filepath_now, output_dir'[name]) :
                    \/ name = g
                    \/ /\ g \in DOMAIN output_dir
                       /\ \E k \in 1..Cardinality(DOMAIN output_dir) :
                             /\ name = Versioned(g, k)
                             /\ \A j \in 1..(k - 1) :
                                   Versioned(g, j) \in DOMAIN output_dir]_vars

\* a walk is over in which a b.csv and a_b.csv, of different content, both gave
\* the name a_b.csv: the first is a_b.csv, the second a_b_v1.csv
C24_Witness ==
    /\ pc = "dedup_done"
    /\ Len(found_files) = 2
    /\ found_files[1].name = t_a_space_b_csv
    /\ found_files[2].name = t_a_b_csv
    /\ all_output_files = <<t_a_b_csv, t_a_b_v1_csv>>
    /\ output_dir[t_a_b_csv].from = PathOf(found_files[1])
    /\ output_dir[t_a_b_v1_csv].from = PathOf(found_files[2])

====
